---- MODULE Spec2Model ----
(***************************************************************************)
(* Model of the context menu service of the Wavebox main process           *)
(* (src/src/app/src/Services/ContextMenuService.js).                       *)
(*                                                                         *)
(* JavaScript values are modelled as follows.                              *)
(*   - an object is a record with exactly the keys the code gives it;      *)
(*   - undefined is the record Undefined;                                  *)
(*   - an array that may also be undefined (a menu section) is the record  *)
(*     Arr(items), so that it can be told apart from Undefined;            *)
(*   - a string the code takes apart (a URL) is a sequence of characters;  *)
(*   - a label is a sequence of its parts;                                 *)
(*   - a closure is a record naming the function it calls and the values   *)
(*     it captured.                                                        *)
(***************************************************************************)
EXTENDS Integers, Sequences, FiniteSets, TLC

VARIABLES
  \* ---- the service and the surfaces, windows and menus around it
  autofillAvailable, \* privAutofillService.isAvailable
  winPolicy,     \* "plain": the window is no WaveboxWindow; "rootMenu" /
                 \* "noRootMenu": its rootWebContentsHasContextMenu flag
  winState,      \* the browser window: "none" | "open" | "closed"
  sphase,        \* per surface: "none" | "created" | "attached" | "destroyed"
  url,           \* per surface: contents.getURL()
  canGoBack,     \* per surface: contents.canGoBack()
  immediates,    \* the setImmediate queue: the surface of each callback
  privConnected, \* this[privConnected]
  listeners,     \* per surface: listeners attached for 'context-menu' and
                 \* for 'destroyed'
  requests,      \* the number of context-menu events emitted so far
  invocations,   \* one record per run of launchMenu that built its sections
  menus,         \* one record per menu popped up
  \* ---- the extension menu tree builder, run on one node list
  treeNodes,     \* the contextMenus argument of renderExtensionMenuTree
  treeState,     \* root, index and the rendered objects after the pass
  treePc,        \* "ready" | "done"
  \* ---- the section aggregator, run on one list of sections
  tplSections,   \* the sections argument of convertSectionsToTemplate
  tplTemplate,   \* the template it returned
  tplPc,         \* "ready" | "done"
  \* ---- the extension section renderer, run on one set of runtime data
  extRuntimeData, \* what getRuntimeContextMenuData() holds at the call
  extRuntimeObject, \* the object it returned, as it is now
  extParams,     \* the params argument of renderExtensionSection
  extSection,    \* the section it returned
  extPc,         \* "ready" | "done"
  \* ---- the composition of one menu, from the renderers to the template
  cmpInput,      \* the surface, the params and the outcome of the lookup
  cmpSections,   \* the sections handed to presentMenu
  cmpTemplate,   \* the template presentMenu built from them
  cmpPc,         \* "ready" | "done"
  \* ---- one renderer or click handler, run on its own
  fnArgs,        \* the arguments of the call
  fnResult,      \* what it returned, or the calls it made
  fnPc,          \* "ready" | "done"
  \* ---- one click on a service entry of 'Open Link in Account Profile'
  lnkClick,      \* the click closure: service, link, sleeping at render
  lnkWindow,     \* WaveboxWindow.getOfType(MailboxesWindow) finds a window
  lnkTabs,       \* per service: its tab "none" | "live" | "destroyed"
  lnkCalls,      \* the calls the handler made on the stores and surfaces
  lnkPc,         \* "ready" | "timer" (setTimeout pending) | "done"
  \* ---- clicks on extension items of the menus popped up
  clicks,        \* one record per run of extensionOptionSelected
  \* ---- a record of the deferred validations, not a value of the program
  validations    \* per surface: how each of its setImmediate callbacks ended

svcVars == <<autofillAvailable, winPolicy, winState, sphase, url, canGoBack,
             immediates, privConnected, listeners, requests, invocations,
             menus>>
treeVars == <<treeNodes, treeState, treePc>>
tplVars == <<tplSections, tplTemplate, tplPc>>
extVars == <<extRuntimeData, extRuntimeObject, extParams, extSection, extPc>>
cmpVars == <<cmpInput, cmpSections, cmpTemplate, cmpPc>>
fnVars == <<fnArgs, fnResult, fnPc>>
lnkVars == <<lnkClick, lnkWindow, lnkTabs, lnkCalls, lnkPc>>
pureVars == <<treeVars, tplVars, extVars, cmpVars, fnVars, lnkVars>>
logVars == <<clicks, validations>>

(***************************************************************************)
(* Bounds of the model.                                                    *)
(***************************************************************************)
MaxNodes == 3
MaxSections == 3
MaxRequests == 2
MaxCredentials == 2
MaxExtensionNodes == 2
MaxClicks == 1
MaxSelectionLength == 52
MaxLinkTokens == 3

MaxSuggestions == 2

(***************************************************************************)
(* JavaScript values.                                                      *)
(***************************************************************************)
Undefined == [undefined |-> TRUE]

Arr(items) == [items |-> items]

IsArr(v) == "items" \in DOMAIN v

\* section && section.length
Truthy(section) == IsArr(section) /\ Len(section.items) > 0

HasKey(obj, key) == key \in DOMAIN obj

RECURSIVE Concat(_)
Concat(seqs) ==
  IF Len(seqs) = 0 THEN <<>> ELSE Head(seqs) \o Concat(Tail(seqs))

\* Array.prototype.slice(0, -1)
SliceDropLast(s) == IF Len(s) = 0 THEN <<>> ELSE SubSeq(s, 1, Len(s) - 1)

\* String.prototype.startsWith
StartsWith(s, prefix) ==
  Len(s) >= Len(prefix) /\ SubSeq(s, 1, Len(prefix)) = prefix

SeparatorItem == [type |-> "separator"]

IsSeparator(item) == HasKey(item, "type") /\ item.type = "separator"

(***************************************************************************)
(* convertSectionsToTemplate: the reduce appends every truthy, non-empty   *)
(* section followed by a separator; slice(0, -1) drops the last element.   *)
(***************************************************************************)
RECURSIVE ReduceSections(_, _)
ReduceSections(acc, sections) ==
  IF Len(sections) = 0 THEN acc
  ELSE LET section == Head(sections)
       IN ReduceSections(
            IF Truthy(section)
              THEN acc \o section.items \o <<SeparatorItem>>
              ELSE acc,
            Tail(sections))

convertSectionsToTemplate_NoSlice(sections) ==
  ReduceSections(<<>>, sections)

convertSectionsToTemplate(sections) ==
  SliceDropLast(ReduceSections(<<>>, sections))

(***************************************************************************)
(* Extension menu nodes (CRExtensionRTContextMenu).  An id is a positive   *)
(* number; parentId 0 stands for an absent (falsy) parentId.               *)
(***************************************************************************)
ITEM_TYPE_NORMAL == "normal"
ITEM_TYPE_CHECKBOX == "checkbox"
ITEM_TYPE_RADIO == "radio"
ITEM_TYPE_SEPERATOR == "separator"

CONTEXT_TYPE_ALL == "all"
CONTEXT_TYPE_PAGE == "page"
CONTEXT_TYPE_EDITABLE == "editable"

NoParent == 0

ExtensionClick(contents, extensionId, menuItem, params) ==
  [fn |-> "extensionOptionSelected", contents |-> contents.id,
   extensionId |-> extensionId, menuItem |-> menuItem, params |-> params]

renderExtensionMenuItem(contents, params, extensionId, menuItem) ==
  IF menuItem.type = ITEM_TYPE_NORMAL THEN
    [_id_ |-> menuItem.id, label |-> menuItem.title,
     enabled |-> menuItem.enabled,
     click |-> ExtensionClick(contents, extensionId, menuItem, params)]
  ELSE IF menuItem.type = ITEM_TYPE_CHECKBOX THEN
    [_id_ |-> menuItem.id, label |-> menuItem.title, type |-> "checkbox",
     checked |-> menuItem.checked,
     click |-> ExtensionClick(contents, extensionId, menuItem, params)]
  ELSE IF menuItem.type = ITEM_TYPE_RADIO THEN
    [_id_ |-> menuItem.id, label |-> menuItem.title, type |-> "radio",
     checked |-> menuItem.checked,
     click |-> ExtensionClick(contents, extensionId, menuItem, params)]
  ELSE IF menuItem.type = ITEM_TYPE_SEPERATOR THEN
    [type |-> "separator"]
  ELSE Undefined

(***************************************************************************)
(* renderExtensionMenuTree.  The rendered items are objects shared by      *)
(* reference between root, index and the submenu arrays, and a parent is   *)
(* mutated when a child is pushed to it.  The objects live in objs, a      *)
(* reference is a position in objs, root and every submenu hold            *)
(* references, and index maps a node id to a reference.  made[k] is the    *)
(* reference rendered for the k-th node of the list, 0 when it rendered to *)
(* nothing; it is a record of the pass, not a value of the program.        *)
(***************************************************************************)
EmptyTree == [root |-> <<>>, index |-> <<>>, objs |-> <<>>, made |-> <<>>]

\* index.get(id) is an object, hence truthy, exactly when id is a key
IndexHas(index, id) == id \in DOMAIN index

\* parent.submenu = parent.submenu || [] ; parent.submenu.push(rendered)
PushSubmenu(obj, ref) ==
  IF HasKey(obj, "submenu")
    THEN [obj EXCEPT !.submenu = Append(@, ref)]
    ELSE obj @@ [submenu |-> <<ref>>]

TreeStep_AlsoRoot(st, contents, params, extensionId, menuItem) ==
  LET rendered == renderExtensionMenuItem(contents, params, extensionId, menuItem)
      ref == Len(st.objs) + 1
  IN IF rendered = Undefined THEN [st EXCEPT !.made = Append(@, 0)]
     ELSE IF menuItem.parentId # NoParent /\ IndexHas(st.index, menuItem.parentId)
       THEN LET parent == st.index[menuItem.parentId]
            IN [root |-> Append(st.root, ref),
                index |-> (menuItem.id :> ref) @@ st.index,
                objs |-> Append([st.objs EXCEPT ![parent] = PushSubmenu(@, ref)],
                                rendered),
                made |-> Append(st.made, ref)]
       ELSE [root |-> Append(st.root, ref),
             index |-> (menuItem.id :> ref) @@ st.index,
             objs |-> Append(st.objs, rendered),
             made |-> Append(st.made, ref)]

TreeStep_IndexFirst(st, contents, params, extensionId, menuItem) ==
  LET rendered == renderExtensionMenuItem(contents, params, extensionId, menuItem)
      ref == Len(st.objs) + 1
      index == (menuItem.id :> ref) @@ st.index
      objs == Append(st.objs, rendered)
  IN IF rendered = Undefined THEN [st EXCEPT !.made = Append(@, 0)]
     ELSE IF menuItem.parentId # NoParent /\ IndexHas(index, menuItem.parentId)
       THEN LET parent == index[menuItem.parentId]
            IN [root |-> st.root,
                index |-> index,
                objs |-> [objs EXCEPT ![parent] = PushSubmenu(@, ref)],
                made |-> Append(st.made, ref)]
       ELSE [root |-> Append(st.root, ref),
             index |-> index,
             objs |-> objs,
             made |-> Append(st.made, ref)]

TreeStep_DropsOrphans(st, contents, params, extensionId, menuItem) ==
  LET rendered == renderExtensionMenuItem(contents, params, extensionId, menuItem)
      ref == Len(st.objs) + 1
  IN IF rendered = Undefined THEN [st EXCEPT !.made = Append(@, 0)]
     ELSE IF menuItem.parentId # NoParent /\ IndexHas(st.index, menuItem.parentId)
       THEN LET parent == st.index[menuItem.parentId]
            IN [root |-> st.root,
                index |-> (menuItem.id :> ref) @@ st.index,
                objs |-> Append([st.objs EXCEPT ![parent] = PushSubmenu(@, ref)],
                                rendered),
                made |-> Append(st.made, ref)]
       ELSE [root |-> IF menuItem.parentId # NoParent THEN st.root
                      ELSE Append(st.root, ref),
             index |-> (menuItem.id :> ref) @@ st.index,
             objs |-> Append(st.objs, rendered),
             made |-> Append(st.made, ref)]

\* one iteration of contextMenus.forEach
TreeStep(st, contents, params, extensionId, menuItem) ==
  LET rendered == renderExtensionMenuItem(contents, params, extensionId, menuItem)
      ref == Len(st.objs) + 1
  IN IF rendered = Undefined THEN [st EXCEPT !.made = Append(@, 0)]
     ELSE IF menuItem.parentId # NoParent /\ IndexHas(st.index, menuItem.parentId)
       THEN LET parent == st.index[menuItem.parentId]
            IN [root |-> st.root,
                index |-> (menuItem.id :> ref) @@ st.index,
                objs |-> Append([st.objs EXCEPT ![parent] = PushSubmenu(@, ref)],
                                rendered),
                made |-> Append(st.made, ref)]
       ELSE [root |-> Append(st.root, ref),
             index |-> (menuItem.id :> ref) @@ st.index,
             objs |-> Append(st.objs, rendered),
             made |-> Append(st.made, ref)]

\* the state of the pass after the first k nodes
RECURSIVE TreeAfter(_, _, _, _, _)
TreeAfter(contents, params, extensionId, contextMenus, k) ==
  IF k = 0 THEN EmptyTree
  ELSE TreeStep(TreeAfter(contents, params, extensionId, contextMenus, k - 1),
                contents, params, extensionId, contextMenus[k])

\* the value of an object: its submenu references replaced by their values
RECURSIVE Materialize(_, _)
Materialize(objs, ref) ==
  LET obj == objs[ref]
  IN IF HasKey(obj, "submenu")
       THEN [obj EXCEPT !.submenu =
              [i \in 1..Len(obj.submenu) |-> Materialize(objs, obj.submenu[i])]]
       ELSE obj

MaterializeAll(objs, refs) ==
  [i \in 1..Len(refs) |-> Materialize(objs, refs[i])]

renderExtensionMenuTree(contents, params, extensionId, contextMenus) ==
  LET st == TreeAfter(contents, params, extensionId, contextMenus,
                      Len(contextMenus))
  IN MaterializeAll(st.objs, st.root)

(***************************************************************************)
(* renderExtensionSection.  runtimeData is what                            *)
(* runtimeHandler.getRuntimeContextMenuData() returned: a sequence (in     *)
(* Object.keys order) of [extensionId, name, icons, contextMenus], each    *)
(* contextMenus entry the two-element array [menuId, menuData].            *)
(***************************************************************************)
\* the array [menuId, menuData], read by destructuring at line 653
Entry(menuId, menuData) == [menuId |-> menuId, menuData |-> menuData]

\* new CRExtensionRTContextMenu(extensionId, menuId, menuData)
CRExtensionRTContextMenu(extensionId, menuId, menuData) ==
  [extensionId |-> extensionId, id |-> menuId] @@ menuData

\* a || b on strings: the first operand when it is non-empty
JsOr(a, b) == IF a # "" THEN a ELSE b

\* the filter callback of lines 663-670
IsValidContextMenu(menu, params) ==
  \/ JsOr(CONTEXT_TYPE_ALL, CONTEXT_TYPE_PAGE) \in menu.contexts
  \/ (params.isEditable /\ CONTEXT_TYPE_EDITABLE \in menu.contexts)

MungeContextMenus(extension) ==
  [i \in 1..Len(extension.contextMenus) |->
     CRExtensionRTContextMenu(extension.extensionId,
                              extension.contextMenus[i].menuId,
                              extension.contextMenus[i].menuData)]

\* the runtime data after the forEach of lines 652-656, which assigns the
\* mapped array to the contextMenus property of every extension
MungedRuntimeData(runtimeData) ==
  [i \in 1..Len(runtimeData) |->
     [runtimeData[i] EXCEPT !.contextMenus = MungeContextMenus(runtimeData[i])]]

ValidContextMenus(extension, params) ==
  SelectSeq(MungeContextMenus(extension),
            LAMBDA menu : IsValidContextMenu(menu, params))

NativeImageFromPath(path) == [nativeImage |-> path]

\* what one extension pushes to the section's template (lines 661-685)
ExtensionItems(contents, params, extension) ==
  LET validContextMenus == ValidContextMenus(extension, params)
      renderedMenuTemplate ==
        renderExtensionMenuTree(contents, params, extension.extensionId,
                                validContextMenus)
  IN IF Len(renderedMenuTemplate) = 1 THEN
       << renderedMenuTemplate[1]
            @@ [icon |-> NativeImageFromPath(extension.icons)] >>
     ELSE IF Len(validContextMenus) > 1 THEN
       << [label |-> extension.name,
           icon |-> NativeImageFromPath(extension.icons),
           submenu |-> renderedMenuTemplate] >>
     ELSE <<>>

renderExtensionSection(contents, params, runtimeData) ==
  IF ~contents.inWaveboxTab THEN Arr(<<>>)
  ELSE Arr(Concat([i \in 1..Len(runtimeData) |->
                     ExtensionItems(contents, params, runtimeData[i])]))

(***************************************************************************)
(* The synchronous section renderers.  contents is the surface as the      *)
(* renderer reads it: [id, url, canGoBack, canGoForward, isDefaultSession, *)
(* inWaveboxTab].  params is the context-menu event's parameter object.    *)
(* env holds what the renderers read from the stores and services:         *)
(* platform, tabMetaInfo, mailboxIds, mailboxes, services, sleeping,       *)
(* showCtxMenuAdvancedLinkOptions, installedDictionaries, primaryLanguage, *)
(* spellSuggestions, runtimeContextMenuData.                               *)
(***************************************************************************)
\* a JavaScript string is truthy when it is not empty
NonEmpty(str) == Len(str) > 0

\* [a, b, ...].filter((i) => !!i)
FilterDefined(items) == SelectSeq(items, LAMBDA i : i # Undefined)

Click(fn, args) == [fn |-> fn, args |-> args]

MAILBOX_SERVICE == "MAILBOX_SERVICE"

getMenuAccountInfo(tabId, env) ==
  LET tabMetaInfo == env.tabMetaInfo[tabId]
  IN IF tabMetaInfo = Undefined THEN [has |-> FALSE]
     ELSE IF tabMetaInfo.backing # MAILBOX_SERVICE THEN [has |-> FALSE]
     ELSE IF \/ tabMetaInfo.mailboxId \notin DOMAIN env.mailboxes
             \/ tabMetaInfo.serviceId \notin DOMAIN env.services
       THEN [has |-> FALSE]
     ELSE [has |-> TRUE,
           mailbox |-> env.mailboxes[tabMetaInfo.mailboxId],
           service |-> env.services[tabMetaInfo.serviceId]]

\* the per-service entries of the expanded account fan-out (lines 267-309)
ServiceLinkItems(mailbox, params, env) ==
  [i \in 1..Len(mailbox.allServices) |->
     [label |-> <<"service:", mailbox.allServices[i]>>,
      click |-> Click("openLinkInService",
                      [serviceId |-> mailbox.allServices[i],
                       linkURL |-> params.linkURL,
                       sleepingAtRender |-> mailbox.allServices[i] \in env.sleeping])]]

AccountProfileItems(contents, params, env) ==
  IF Len(env.mailboxIds) > 1 THEN
    IF env.showCtxMenuAdvancedLinkOptions THEN
      << [label |-> <<"Open Link in Account Profile">>,
          submenu |->
            [i \in 1..Len(env.mailboxIds) |->
               [label |-> <<"mailbox:", env.mailboxIds[i]>>,
                submenu |->
                  << [label |-> <<"New Window">>,
                      click |-> Click("openLinkInWaveboxWindowForAccount",
                                      [contents |-> contents.id,
                                       linkURL |-> params.linkURL,
                                       mailboxId |-> env.mailboxIds[i]])],
                     SeparatorItem >>
                  \o ServiceLinkItems(env.mailboxes[env.mailboxIds[i]], params, env)]]] >>
    ELSE
      << [label |-> <<"Open Link in Account Profile">>,
          submenu |->
            [i \in 1..Len(env.mailboxIds) |->
               [label |-> <<"mailbox:", env.mailboxIds[i]>>,
                click |-> Click("openLinkInWaveboxWindowForAccount",
                                [contents |-> contents.id,
                                 linkURL |-> params.linkURL,
                                 mailboxId |-> env.mailboxIds[i]])]]] >>
  ELSE <<>>

renderURLSection(contents, params, accountInfo, isWaveboxUIContents, env) ==
  IF NonEmpty(params.linkURL) /\ isWaveboxUIContents = FALSE THEN
    Arr(
      << [label |-> <<"Open Link in Browser">>,
          click |-> Click("openExternal", [url |-> params.linkURL])] >>
      \o (IF env.platform = "darwin"
            THEN << [label |-> <<"Open Link in Background">>,
                     click |-> Click("openExternalBackground",
                                     [url |-> params.linkURL])] >>
            ELSE <<>>)
      \o << [label |-> <<"Copy Link Address">>,
             click |-> Click("copyLinkAddress", [linkURL |-> params.linkURL])] >>
      \o (IF \/ StartsWith(params.linkURL, <<"http://">>)
             \/ StartsWith(params.linkURL, <<"https://">>)
            THEN << SeparatorItem,
                    [label |-> <<"Open Link with Wavebox">>,
                     submenu |-> FilterDefined(
                       << [label |-> <<"Open Link in New Window">>,
                           click |-> Click("openLinkInWaveboxWindow",
                                           [contents |-> contents.id,
                                            url |-> params.linkURL])],
                          IF accountInfo.has
                            THEN [label |-> <<"Open Link as New Service">>,
                                  click |-> Click("fastCreateWeblinkService",
                                                  [mailboxId |-> accountInfo.mailbox.id,
                                                   url |-> params.linkURL])]
                            ELSE Undefined,
                          [label |-> <<"Open Link Here">>,
                           click |-> Click("loadURL",
                                           [contents |-> contents.id,
                                            url |-> params.linkURL])] >>)] >>
            ELSE <<>>)
      \o AccountProfileItems(contents, params, env))
  ELSE Arr(<<>>)

DISPLAY_TRUNCATE_FROM == 50
DISPLAY_TRUNCATE_TO == 47

DisplayText_AboveFifty(selectionText) ==
  IF Len(selectionText) > DISPLAY_TRUNCATE_FROM
    THEN SubSeq(selectionText, 1, DISPLAY_TRUNCATE_TO) \o <<"...">>
    ELSE selectionText

\* encodeURIComponent on texts of letters and spaces: a letter stays, a
\* space becomes %20
encodeURIComponent(text) ==
  [i \in 1..Len(text) |-> IF text[i] = " " THEN "%20" ELSE text[i]]

DisplayText(selectionText) ==
  IF Len(selectionText) >= DISPLAY_TRUNCATE_FROM
    THEN SubSeq(selectionText, 1, DISPLAY_TRUNCATE_TO) \o <<"...">>
    ELSE selectionText

renderLookupAndSearchSection(contents, params) ==
  IF NonEmpty(params.selectionText) THEN
    Arr(
      (IF params.isEditable /\ NonEmpty(params.misspelledWord)
         THEN << [label |-> <<"Add '">> \o params.misspelledWord
                               \o <<"' to Dictionary">>,
                  click |-> Click("addUserWord",
                                  [word |-> params.misspelledWord])] >>
         ELSE <<>>)
      \o << [label |-> <<"Search Google for '">>
                         \o DisplayText(params.selectionText) \o <<"'">>,
             click |-> Click("openExternal",
                             [url |-> <<"https://google.com/search?q=">>
                                        \o encodeURIComponent(
                                             params.selectionText)])],
            [label |-> <<"Translate '">>
                         \o DisplayText(params.selectionText) \o <<"'">>,
             click |-> Click("openExternal",
                             [url |-> <<"http://translate.google.com/#auto/#/">>
                                        \o encodeURIComponent(
                                             params.selectionText)])] >>)
  ELSE Arr(<<>>)

renderRewindSection(contents, params) ==
  IF params.editFlags.canUndo \/ params.editFlags.canRedo THEN
    Arr(<< [label |-> <<"Undo">>, role |-> "undo",
            enabled |-> params.editFlags.canUndo],
           [label |-> <<"Redo">>, role |-> "redo",
            enabled |-> params.editFlags.canRedo] >>)
  ELSE Arr(<<>>)

renderEditingSection(contents, params) ==
  IF params.mediaType = "image" THEN
    Arr(<< [label |-> <<"Open Image in Browser">>,
            click |-> Click("openExternal", [url |-> params.srcURL])],
           [label |-> <<"Save Image As">>,
            click |-> Click("downloadURL", [contents |-> contents.id,
                                            url |-> params.srcURL])],
           [label |-> <<"Copy Image Address">>,
            click |-> Click("clipboardWrite", [text |-> params.srcURL])] >>)
  ELSE
    Arr(
      (IF params.editFlags.canCut
         THEN <<[label |-> <<"Cut">>, role |-> "cut"]>> ELSE <<>>)
      \o (IF params.editFlags.canCopy
            THEN <<[label |-> <<"Copy">>, role |-> "copy"]>> ELSE <<>>)
      \o (IF params.editFlags.canPaste
            THEN <<[label |-> <<"Paste">>, role |-> "paste"]>> ELSE <<>>)
      \o (IF params.editFlags.canPaste
            THEN <<[label |-> <<"Paste and match style">>,
                    role |-> "pasteandmatchstyle"]>> ELSE <<>>)
      \o (IF params.editFlags.canSelectAll
            THEN <<[label |-> <<"Select all">>, role |-> "selectall"]>> ELSE <<>>))

renderPageNavigationSection(contents, params, accountInfo) ==
  Arr(FilterDefined(
    << IF accountInfo.has
         THEN [label |-> <<"Home">>,
               click |-> Click("loadURL", [contents |-> contents.id,
                                           url |-> accountInfo.service.url])]
         ELSE Undefined,
       [label |-> <<"Go Back">>, enabled |-> contents.canGoBack,
        click |-> Click("goBack", [contents |-> contents.id])],
       IF contents.canGoForward
         THEN [label |-> <<"Go Forward">>,
               click |-> Click("goForward", [contents |-> contents.id])]
         ELSE Undefined,
       [label |-> <<"Reload">>,
        click |-> Click("reload", [contents |-> contents.id])] >>))

renderPageExternalSection(contents, params, accountInfo, isWaveboxUIContents) ==
  IF isWaveboxUIContents THEN Arr(<<>>)
  ELSE
    Arr(<< [label |-> <<"Copy Current URL">>,
            click |-> Click("clipboardWrite", [text |-> params.pageURL])],
           [label |-> <<"Open Page">>,
            submenu |-> FilterDefined(
              << [label |-> <<"Open Page in Browser">>,
                  click |-> Click("openExternal", [url |-> params.pageURL])],
                 [label |-> <<"Open Page in Wavebox">>,
                  click |-> Click("openLinkInWaveboxWindow",
                                  [contents |-> contents.id,
                                   url |-> params.pageURL])],
                 IF accountInfo.has
                   THEN [label |-> <<"Open Page as New Service">>,
                         click |-> Click("fastCreateWeblinkService",
                                         [mailboxId |-> accountInfo.mailbox.id,
                                          url |-> params.pageURL])]
                   ELSE Undefined >>)],
           [label |-> <<"Print">>,
            click |-> Click("print", [contents |-> contents.id])] >>)

renderWaveboxSection(contents, params, env) ==
  Arr(
    << [label |-> <<"Wavebox Settings">>,
        click |-> Click("openWaveboxSettings", [contents |-> contents.id])] >>
    \o (IF Len(env.installedDictionaries) > 1
          THEN << [label |-> <<"Change Dictionary">>,
                   submenu |->
                     [i \in 1..Len(env.installedDictionaries) |->
                        [label |-> <<"language:", env.installedDictionaries[i]>>,
                         type |-> "radio",
                         checked |-> env.installedDictionaries[i] = env.primaryLanguage,
                         click |-> Click("setSpellcheckerLanguage",
                                         [lang |-> env.installedDictionaries[i]])]]] >>
          ELSE <<>>)
    \o << [label |-> <<"Inspect">>,
           click |-> Click("inspectElement",
                           [contents |-> contents.id,
                            x |-> params.x, y |-> params.y])] >>)

renderSpellingSuggestionMenuItems_NoPlaceholder(contents, suggestions) ==
  [i \in 1..Len(suggestions) |->
     [label |-> <<suggestions[i]>>,
      click |-> Click("replaceMisspelling",
                      [contents |-> contents.id,
                       suggestion |-> suggestions[i]])]]

renderSpellingSuggestionMenuItems(contents, suggestions) ==
  IF Len(suggestions) > 0
    THEN [i \in 1..Len(suggestions) |->
            [label |-> <<suggestions[i]>>,
             click |-> Click("replaceMisspelling",
                             [contents |-> contents.id,
                              suggestion |-> suggestions[i]])]]
    ELSE << [label |-> <<"No Spelling Suggestions">>, enabled |-> FALSE] >>

renderSpellingSection(contents, params, env) ==
  IF params.isEditable /\ NonEmpty(params.misspelledWord) THEN
    LET suggestions == env.spellSuggestions
    IN IF HasKey(suggestions, "primary") /\ HasKey(suggestions, "secondary") THEN
         Arr(<< [label |-> <<"language:", suggestions.primary.language>>,
                 submenu |-> renderSpellingSuggestionMenuItems(
                               contents, suggestions.primary.suggestions)],
                [label |-> <<"language:", suggestions.secondary.language>>,
                 submenu |-> renderSpellingSuggestionMenuItems(
                               contents, suggestions.secondary.suggestions)] >>)
       ELSE
         LET suggList ==
               IF HasKey(suggestions, "primary")
                 THEN suggestions.primary.suggestions
               ELSE IF HasKey(suggestions, "secondary")
                 THEN suggestions.secondary.suggestions
               ELSE <<>>
         IN Arr(renderSpellingSuggestionMenuItems(contents, suggList))
  ELSE Arr(<<>>)

(***************************************************************************)
(* Autofill.                                                               *)
(***************************************************************************)
isAutofillPasswordField(contents, params) ==
  IF params.inputFieldType # "password" THEN FALSE
  ELSE IF ~params.isEditable THEN FALSE
  ELSE IF ~StartsWith(contents.url, <<"https://">>) THEN FALSE
  ELSE TRUE

ManagementItems(contents) ==
  << [label |-> <<"Manage saved passwords">>,
      click |-> Click("openAutofillManager", [contents |-> contents.id])],
     [label |-> <<"Add new password">>,
      click |-> Click("addAutofillPassword", [contents |-> contents.id])] >>

CredentialItems(contents, credentials) ==
  [i \in 1..Len(credentials) |->
     [icon |-> [nativeImage |-> "AUTOFILL_MENU"],
      label |-> <<credentials[i].account>>,
      click |-> Click("fillPassword", [contents |-> contents.id,
                                       password |-> credentials[i].password])]]

renderAutofillSection(contents, params, credentials) ==
  IF ~isAutofillPasswordField(contents, params) THEN Undefined
  ELSE Arr(CredentialItems(contents, credentials) \o ManagementItems(contents))

SyncSections_WaveboxBeforeExtension(contents, params, env) ==
  LET accountInfo == getMenuAccountInfo(contents.id, env)
      isWaveboxUIContents == contents.isDefaultSession
  IN << renderSpellingSection(contents, params, env),
        renderURLSection(contents, params, accountInfo, isWaveboxUIContents, env),
        renderLookupAndSearchSection(contents, params),
        renderRewindSection(contents, params),
        renderEditingSection(contents, params),
        renderPageNavigationSection(contents, params, accountInfo),
        renderPageExternalSection(contents, params, accountInfo, isWaveboxUIContents),
        renderWaveboxSection(contents, params, env),
        renderExtensionSection(contents, params, env.runtimeContextMenuData) >>

\* the sections array of launchMenu (lines 96-109)
SyncSections(contents, params, env) ==
  LET accountInfo == getMenuAccountInfo(contents.id, env)
      isWaveboxUIContents == contents.isDefaultSession
  IN << renderSpellingSection(contents, params, env),
        renderURLSection(contents, params, accountInfo, isWaveboxUIContents, env),
        renderLookupAndSearchSection(contents, params),
        renderRewindSection(contents, params),
        renderEditingSection(contents, params),
        renderPageNavigationSection(contents, params, accountInfo),
        renderPageExternalSection(contents, params, accountInfo, isWaveboxUIContents),
        renderExtensionSection(contents, params, env.runtimeContextMenuData),
        renderWaveboxSection(contents, params, env) >>

(***************************************************************************)
(* The surfaces.  One browser window; surface 1 is its own webContents     *)
(* (the application UI, in the default session), surface 2 is a guest      *)
(* hosted in it (a mailbox service tab).  A surface is "created" when the  *)
(* app has reported it but it is not yet attached: the root surface has no *)
(* browser window yet, the guest has no host yet.                          *)
(***************************************************************************)
RootSurface == 1
GuestSurface == 2
Surfaces == {RootSurface, GuestSurface}

RootUrl == <<"file://", "app">>

GuestUrls == {<<"https://", "bank">>, <<"https://", "blog">>, <<"http://", "bank">>}

\* contents.isDestroyed()
IsDestroyed(s) == sphase[s] = "destroyed"

IsAlive(s) == sphase[s] \in {"created", "attached"}

\* ElectronWebContents.rootWebContents(contents): the top-most host
RootResolves(s) ==
  IF s = RootSurface THEN TRUE
  ELSE sphase[s] = "attached" /\ ~IsDestroyed(RootSurface)

\* BrowserWindow.fromWebContents(rootContents)
WindowResolves == winState = "open" /\ sphase[RootSurface] = "attached"

OptedOut_Never(s) == FALSE

\* lines 66-69: the window opts its root surface out of the menu
OptedOut(s) == winPolicy = "noRootMenu" /\ s = RootSurface

\* the surface as the renderers read it
ContentsOf(s) ==
  [id |-> s, url |-> url[s], canGoBack |-> canGoBack[s],
   canGoForward |-> FALSE, isDefaultSession |-> s = RootSurface,
   inWaveboxTab |-> s = GuestSurface]

\* what the stores and services hold while the model runs
MainEnv ==
  [platform |-> "linux",
   tabMetaInfo |-> (RootSurface :> Undefined)
                   @@ (GuestSurface :> [backing |-> MAILBOX_SERVICE,
                                        mailboxId |-> "m1", serviceId |-> "s1"]),
   mailboxIds |-> <<"m1">>,
   mailboxes |-> ("m1" :> [id |-> "m1", allServices |-> <<"s1">>,
                           partitionId |-> "p1"]),
   services |-> ("s1" :> [id |-> "s1", url |-> <<"https://", "mail">>]),
   sleeping |-> {},
   showCtxMenuAdvancedLinkOptions |-> FALSE,
   installedDictionaries |-> <<"en">>,
   primaryLanguage |-> "en",
   spellSuggestions |-> [primary |-> [language |-> "en", suggestions |-> <<>>]],
   runtimeContextMenuData |->
     << [extensionId |-> "ext", name |-> <<"Extension">>, icons |-> "16.png",
         contextMenus |->
           << Entry(1, [parentId |-> NoParent, type |-> ITEM_TYPE_NORMAL,
                    title |-> <<"Run">>, enabled |-> TRUE, checked |-> FALSE,
                    contexts |-> {CONTEXT_TYPE_ALL}]) >>] >>]

\* the context-menu parameters the model draws from
BaseParams ==
  [linkURL |-> <<>>, srcURL |-> <<>>, pageURL |-> <<"page">>,
   frameURL |-> <<>>, selectionText |-> <<>>, misspelledWord |-> <<>>,
   isEditable |-> FALSE, mediaType |-> "none", inputFieldType |-> "none",
   editFlags |-> [canUndo |-> FALSE, canRedo |-> FALSE, canCut |-> FALSE,
                  canCopy |-> FALSE, canPaste |-> FALSE, canSelectAll |-> FALSE],
   x |-> 0, y |-> 0]

MenuParams ==
  { [BaseParams EXCEPT !.inputFieldType = "password", !.isEditable = TRUE,
                       !.editFlags.canPaste = TRUE],
    [BaseParams EXCEPT !.inputFieldType = "password"],
    [BaseParams EXCEPT !.inputFieldType = "text", !.isEditable = TRUE,
                       !.editFlags.canPaste = TRUE] }

AccountNames == <<"alice", "bob", "carol", "dave">>

\* what findCredentials may resolve with
CredentialLists ==
  { [i \in 1..n |-> [account |-> AccountNames[i], password |-> "secret"]] :
      n \in 0..MaxCredentials }

\* privAutofillService.isValidAutofillUrl
isValidAutofillUrl(u) == u[2] = "bank"

(***************************************************************************)
(* The binding registry (lines 46-78).                                     *)
(***************************************************************************)
IsConnected_Never(connected, webContentsId) == FALSE

\* this[privConnected].has(webContentsId)
IsConnected(connected, webContentsId) == webContentsId \in connected

\* app 'web-contents-created' -> _handleWebContentsCreated -> setImmediate
WebContentsCreated(s) ==
  /\ sphase[s] = "none"
  /\ sphase' = [sphase EXCEPT ![s] = "created"]
  /\ \E u \in (IF s = RootSurface THEN {RootUrl} ELSE GuestUrls) :
       url' = [url EXCEPT ![s] = u]
  /\ immediates' = Append(immediates, s)
  /\ UNCHANGED <<autofillAvailable, winPolicy, winState, canGoBack,
                 privConnected, listeners, requests, invocations, menus>>

BrowserWindowCreated_Inline ==
  /\ winState = "none"
  /\ sphase[RootSurface] = "created"
  /\ winState' = "open"
  /\ sphase' = [sphase EXCEPT ![RootSurface] = "attached"]
  /\ privConnected' = privConnected \cup {RootSurface}
  /\ listeners' = [listeners EXCEPT ![RootSurface] =
                     [contextMenu |-> @.contextMenu + 1,
                      destroyed |-> @.destroyed + 1]]
  /\ UNCHANGED <<autofillAvailable, winPolicy, url, canGoBack, immediates,
                 requests, invocations, menus>>

BrowserWindowCreated_NoValidation ==
  /\ winState = "none"
  /\ sphase[RootSurface] = "created"
  /\ winState' = "open"
  /\ sphase' = [sphase EXCEPT ![RootSurface] = "attached"]
  /\ UNCHANGED <<autofillAvailable, winPolicy, url, canGoBack, immediates,
                 privConnected, listeners, requests, invocations, menus>>

\* app 'browser-window-created' -> _handleBrowserWindowCreated, which hands
\* window.webContents to _handleWebContentsCreated
BrowserWindowCreated ==
  /\ winState = "none"
  /\ sphase[RootSurface] = "created"
  /\ winState' = "open"
  /\ sphase' = [sphase EXCEPT ![RootSurface] = "attached"]
  /\ immediates' = Append(immediates, RootSurface)
  /\ UNCHANGED <<autofillAvailable, winPolicy, url, canGoBack, privConnected,
                 listeners, requests, invocations, menus>>

\* the guest is attached to its host; the app is not told
GuestAttached ==
  /\ sphase[GuestSurface] = "created"
  /\ sphase[RootSurface] = "attached"
  /\ sphase' = [sphase EXCEPT ![GuestSurface] = "attached"]
  /\ UNCHANGED <<autofillAvailable, winPolicy, winState, url, canGoBack,
                 immediates, privConnected, listeners, requests, invocations,
                 menus>>

ValidationEnd_NoWindowCheck(s) ==
  IF IsDestroyed(s) THEN "destroyed"
  ELSE IF IsConnected(privConnected, s) THEN "connected"
  ELSE IF ~RootResolves(s) THEN "noRoot"
  ELSE IF OptedOut(s) THEN "optedOut"
  ELSE "bound"

\* where the callback handed to setImmediate ends for surface s
ValidationEnd(s) ==
  IF IsDestroyed(s) THEN "destroyed"
  ELSE IF IsConnected(privConnected, s) THEN "connected"
  ELSE IF ~RootResolves(s) THEN "noRoot"
  ELSE IF ~WindowResolves THEN "noWindow"
  ELSE IF OptedOut(s) THEN "optedOut"
  ELSE "bound"

\* the callback handed to setImmediate (lines 56-77)
RunImmediate ==
  /\ Len(immediates) > 0
  /\ LET s == Head(immediates)
     IN /\ immediates' = Tail(immediates)
        /\ validations' = [validations EXCEPT ![s] = Append(@, ValidationEnd(s))]
        /\ IF ValidationEnd(s) # "bound"
             THEN UNCHANGED <<privConnected, listeners>>
             ELSE /\ privConnected' = privConnected \cup {s}
                  /\ listeners' =
                       [listeners EXCEPT ![s] =
                          [contextMenu |-> @.contextMenu + 1,
                           destroyed |-> @.destroyed + 1]]
  /\ UNCHANGED <<autofillAvailable, winPolicy, winState, sphase, url,
                 canGoBack, requests, invocations, menus>>

SurfaceDestroyed_KeepsBinding(s) ==
  /\ IsAlive(s)
  /\ sphase' = [sphase EXCEPT ![s] = "destroyed"]
  /\ UNCHANGED <<autofillAvailable, winPolicy, winState, url, canGoBack,
                 immediates, privConnected, listeners, requests, invocations,
                 menus>>

\* the surface is destroyed; its 'destroyed' listeners run (lines 74-76)
SurfaceDestroyed(s) ==
  /\ IsAlive(s)
  /\ sphase' = [sphase EXCEPT ![s] = "destroyed"]
  /\ privConnected' =
       IF listeners[s].destroyed > 0 THEN privConnected \ {s}
       ELSE privConnected
  /\ UNCHANGED <<autofillAvailable, winPolicy, winState, url, canGoBack,
                 immediates, listeners, requests, invocations, menus>>

\* the browser window is closed
WindowClosed ==
  /\ winState = "open"
  /\ winState' = "closed"
  /\ UNCHANGED <<autofillAvailable, winPolicy, sphase, url, canGoBack,
                 immediates, privConnected, listeners, requests, invocations,
                 menus>>

\* the page of a guest surface navigates
Navigated(s, u) ==
  /\ s = GuestSurface
  /\ sphase[s] = "attached"
  /\ u # url[s]
  /\ url' = [url EXCEPT ![s] = u]
  /\ canGoBack' = [canGoBack EXCEPT ![s] = TRUE]
  /\ UNCHANGED <<autofillAvailable, winPolicy, winState, sphase, immediates,
                 privConnected, listeners, requests, invocations, menus>>

(***************************************************************************)
(* Menus (lines 89-140).  The operators below take and return the pair     *)
(* p = [invocations, menus], so that an event emitted to several listeners *)
(* and a promise continuation that runs its catch handler after its then   *)
(* handler are each one step.                                              *)
(***************************************************************************)
\* menu.popup({ window }) on a browser window that has been closed throws
PopupThrows == winState # "open"

\* presentMenu(browserWindow, sections), called by invocation i
presentMenu(p, i, sections) ==
  LET template == convertSectionsToTemplate(sections)
      call == [sections |-> sections, template |-> template,
               shown |-> ~PopupThrows]
      logged == [p EXCEPT !.invocations[i].presentCalls = Append(@, call)]
  IN IF PopupThrows THEN logged
     ELSE [logged EXCEPT !.menus =
             Append(@, [invocation |-> i, template |-> template,
                        open |-> TRUE, destroyCalls |-> 0,
                        closedAt |-> 0])]

ShouldLookup_NoUrlRule(contents, params) ==
  /\ autofillAvailable
  /\ isAutofillPasswordField(contents, params)

\* the condition of line 111
ShouldLookup(contents, params) ==
  /\ autofillAvailable
  /\ isValidAutofillUrl(contents.url)
  /\ isAutofillPasswordField(contents, params)

ThenSections_AutofillLast(autofill, sections) == sections \o <<autofill>>

\* [ this.renderAutofillSection(...) ].concat(sections)   (lines 115-117)
ThenSections(autofill, sections) == <<autofill>> \o sections

CatchSections_WithManagement(invocation) ==
  <<Arr(ManagementItems(ContentsOf(invocation.contents)))>>
    \o invocation.sections

\* the sections the catch handler presents (line 122)
CatchSections(invocation) == invocation.sections

\* one run of launchMenu for the event numbered request on surface s
launchMenu(p, s, params, request) ==
  IF ~RootResolves(s) \/ ~WindowResolves THEN p
  ELSE
    LET contents == ContentsOf(s)
        sections == SyncSections(contents, params, MainEnv)
        i == Len(p.invocations) + 1
        lookup == ShouldLookup(contents, params)
        invocation ==
          [request |-> request, contents |-> s, params |-> params,
           launchUrl |-> contents.url, sections |-> sections,
           lookup |-> IF lookup THEN "pending" ELSE "none",
           lookupCalls |-> IF lookup THEN <<contents.url>> ELSE <<>>,
           presentCalls |-> <<>>, presentedBeforeSettle |-> FALSE,
           settle |-> Undefined, uncaught |-> 0]
        started == [p EXCEPT !.invocations = Append(@, invocation)]
    IN IF lookup THEN started ELSE presentMenu(started, i, sections)

\* emitter.emit('context-menu'): every attached listener runs in turn
RECURSIVE EmitContextMenu(_, _, _, _, _)
EmitContextMenu(p, n, s, params, request) ==
  IF n = 0 THEN p
  ELSE EmitContextMenu(launchMenu(p, s, params, request), n - 1, s, params,
                       request)

\* the user asks for the context menu of surface s; a surface with no
\* listener attached emits the event to nobody
ContextRequested(s, params) ==
  /\ IsAlive(s)
  /\ requests < MaxRequests
  /\ requests' = requests + 1
  /\ LET p == EmitContextMenu([invocations |-> invocations, menus |-> menus],
                              listeners[s].contextMenu, s, params,
                              requests + 1)
     IN /\ invocations' = p.invocations
        /\ menus' = p.menus
  /\ UNCHANGED <<autofillAvailable, winPolicy, winState, sphase, url,
                 canGoBack, immediates, privConnected, listeners>>

\* what the continuation finds when the lookup settles
SettleFacts(invocation, outcome, credentials) ==
  [outcome |-> outcome, credentials |-> credentials,
   alive |-> ~IsDestroyed(invocation.contents),
   url |-> url[invocation.contents],
   windowOpen |-> winState = "open"]

\* the catch handler (lines 119-123); a throw in it is left uncaught
RunCatch(p, i) ==
  LET presented == presentMenu(p, i, CatchSections(p.invocations[i]))
  IN IF PopupThrows
       THEN [presented EXCEPT !.invocations[i].uncaught = @ + 1]
       ELSE presented

\* the then handler (lines 114-118) followed, when it throws, by the catch
\* handler.  A method call on a destroyed surface (contents.getURL(), line
\* 594) throws.
RunThen(p, i, credentials) ==
  LET invocation == p.invocations[i]
      s == invocation.contents
  IN IF IsDestroyed(s) THEN RunCatch(p, i)
     ELSE LET autofill == renderAutofillSection(ContentsOf(s),
                                                invocation.params, credentials)
              presented == presentMenu(p, i, ThenSections(autofill,
                                                         invocation.sections))
          IN IF PopupThrows THEN RunCatch(presented, i) ELSE presented

\* findCredentials resolves with credentials
LookupResolved(i, credentials) ==
  /\ i \in 1..Len(invocations)
  /\ invocations[i].lookup = "pending"
  /\ LET settled ==
           [invocations EXCEPT
              ![i].lookup = "resolved",
              ![i].presentedBeforeSettle = Len(invocations[i].presentCalls) > 0,
              ![i].settle = SettleFacts(invocations[i], "resolved", credentials)]
         p == RunThen([invocations |-> settled, menus |-> menus], i, credentials)
     IN /\ invocations' = p.invocations
        /\ menus' = p.menus
  /\ UNCHANGED <<autofillAvailable, winPolicy, winState, sphase, url,
                 canGoBack, immediates, privConnected, listeners, requests>>

\* findCredentials rejects
LookupRejected(i) ==
  /\ i \in 1..Len(invocations)
  /\ invocations[i].lookup = "pending"
  /\ LET settled ==
           [invocations EXCEPT
              ![i].lookup = "rejected",
              ![i].presentedBeforeSettle = Len(invocations[i].presentCalls) > 0,
              ![i].settle = SettleFacts(invocations[i], "rejected", <<>>)]
         p == RunCatch([invocations |-> settled, menus |-> menus], i)
     IN /\ invocations' = p.invocations
        /\ menus' = p.menus
  /\ UNCHANGED <<autofillAvailable, winPolicy, winState, sphase, url,
                 canGoBack, immediates, privConnected, listeners, requests>>

MenuClosed_NoDestroy(m) ==
  /\ m \in 1..Len(menus)
  /\ menus[m].open
  /\ menus' = [menus EXCEPT ![m].open = FALSE, ![m].closedAt = requests]
  /\ UNCHANGED <<autofillAvailable, winPolicy, winState, sphase, url,
                 canGoBack, immediates, privConnected, listeners, requests,
                 invocations>>

MenuClosed_Unbinds(m) ==
  /\ m \in 1..Len(menus)
  /\ menus[m].open
  /\ menus' = [menus EXCEPT ![m].open = FALSE, ![m].destroyCalls = @ + 1,
                            ![m].closedAt = requests]
  /\ privConnected' = privConnected \ {invocations[menus[m].invocation].contents}
  /\ listeners' = [listeners EXCEPT
                     ![invocations[menus[m].invocation].contents] =
                       [contextMenu |-> 0, destroyed |-> 0]]
  /\ UNCHANGED <<autofillAvailable, winPolicy, winState, sphase, url,
                 canGoBack, immediates, requests, invocations>>

\* the popup reports that menu m closed: callback: () => { menu.destroy() }
MenuClosed(m) ==
  /\ m \in 1..Len(menus)
  /\ menus[m].open
  /\ menus' = [menus EXCEPT ![m].open = FALSE, ![m].destroyCalls = @ + 1,
                            ![m].closedAt = requests]
  /\ UNCHANGED <<autofillAvailable, winPolicy, winState, sphase, url,
                 canGoBack, immediates, privConnected, listeners, requests,
                 invocations>>

(***************************************************************************)
(* Clicks (lines 821-840).  click is the closure of an extension item:     *)
(* [fn, contents, extensionId, menuItem, params].                          *)
(***************************************************************************)
\* the first argument of Object.assign (lines 825-835); params carries
\* isEditable and no editable key, so editable is undefined
ClickParams(menuItem, params) ==
  [menuItemId |-> menuItem.id,
   parentMenuItemId |-> menuItem.parentId,
   mediaType |-> IF params.mediaType = "none" THEN Undefined
                 ELSE [value |-> params.mediaType],
   linkUrl |-> params.linkURL,
   srcUrl |-> params.srcURL,
   pageUrl |-> params.pageURL,
   frameUrl |-> params.frameURL,
   selectionText |-> params.selectionText,
   editable |-> Undefined]

CheckedParams_NoToggle(menuItem) ==
  IF menuItem.type = ITEM_TYPE_CHECKBOX \/ menuItem.type = ITEM_TYPE_RADIO
    THEN [wasChecked |-> menuItem.checked, checked |-> menuItem.checked]
    ELSE [none |-> TRUE]

\* the second argument of Object.assign (lines 836-839)
CheckedParams(menuItem) ==
  IF menuItem.type = ITEM_TYPE_CHECKBOX \/ menuItem.type = ITEM_TYPE_RADIO
    THEN [wasChecked |-> menuItem.checked, checked |-> ~menuItem.checked]
    ELSE [none |-> TRUE]

extensionOptionSelected_NoDestroyedCheck(click) ==
  << [fn |-> "contextMenuItemSelected", extensionId |-> click.extensionId,
      contents |-> click.contents,
      clickParams |-> ClickParams(click.menuItem, click.params),
      checkedParams |-> CheckedParams(click.menuItem)] >>

\* the calls extensionOptionSelected makes on the extension runtime
extensionOptionSelected(click) ==
  IF IsDestroyed(click.contents) THEN <<>>
  ELSE << [fn |-> "contextMenuItemSelected", extensionId |-> click.extensionId,
           contents |-> click.contents,
           clickParams |-> ClickParams(click.menuItem, click.params),
           checkedParams |-> CheckedParams(click.menuItem)] >>

IsExtensionItem(item) ==
  HasKey(item, "click") /\ item.click.fn = "extensionOptionSelected"

\* the user picks item k of the open menu m, an extension item
ExtensionOptionClicked(m, k) ==
  /\ m \in 1..Len(menus)
  /\ menus[m].open
  /\ k \in 1..Len(menus[m].template)
  /\ IsExtensionItem(menus[m].template[k])
  /\ Len(clicks) < MaxClicks
  /\ \A c \in 1..Len(clicks) : clicks[c].menu # m
  /\ clicks' = Append(clicks,
       [menu |-> m, item |-> k,
        alive |-> ~IsDestroyed(menus[m].template[k].click.contents),
        calls |-> extensionOptionSelected(menus[m].template[k].click)])
  /\ UNCHANGED svcVars

(***************************************************************************)
(* Inputs of the tree builder: every list of at most MaxNodes nodes.  Ids  *)
(* are distinct (they are the keys of the runtime's menu entries) and only *)
(* ever compared for equality, so the k-th node is given id k; a parentId  *)
(* is absent, the id of any node of the list, or an id no node has.        *)
(***************************************************************************)
TreeNodeTypes == {ITEM_TYPE_NORMAL, ITEM_TYPE_SEPERATOR, "unknown"}

TreeParentIds == 0..(MaxNodes + 1)

TreeNode(id, parentId, type) ==
  [extensionId |-> "ext", id |-> id, parentId |-> parentId, type |-> type,
   title |-> <<"node">>, enabled |-> TRUE, checked |-> FALSE,
   contexts |-> {CONTEXT_TYPE_ALL}]

TreeInputs ==
  UNION {
    { [k \in 1..n |-> TreeNode(k, shape[k][1], shape[k][2])] :
        shape \in [1..n -> TreeParentIds \X TreeNodeTypes] } :
    n \in 0..MaxNodes }

TreeContents == [id |-> 1, inWaveboxTab |-> TRUE]

TreeParams == [isEditable |-> FALSE]

RunRenderExtensionMenuTree ==
  /\ treePc = "ready"
  /\ treeState' = TreeAfter(TreeContents, TreeParams, "ext", treeNodes,
                            Len(treeNodes))
  /\ treePc' = "done"
  /\ UNCHANGED treeNodes

(***************************************************************************)
(* Inputs of the aggregator: lists of at most MaxSections sections, each   *)
(* undefined, empty, or a section a renderer produces.                     *)
(***************************************************************************)
ActionItem(name) == [label |-> <<name>>, click |-> [fn |-> name]]

\* the shape of renderURLSection's output for an http link (lines 201-242)
LinkLikeSection ==
  Arr(<<ActionItem("Open Link in Browser"), ActionItem("Copy Link Address"),
        SeparatorItem,
        [label |-> <<"Open Link with Wavebox">>,
         submenu |-> <<ActionItem("Open Link in New Window"),
                       ActionItem("Open Link Here")>>]>>)

\* renderExtensionSection for one extension whose only node is a separator
SeparatorOnlyRuntimeData ==
  << [extensionId |-> "ext", name |-> <<"Extension">>, icons |-> "16.png",
      contextMenus |->
        << Entry(1, [parentId |-> NoParent, type |-> ITEM_TYPE_SEPERATOR,
                 title |-> <<"">>, enabled |-> TRUE, checked |-> FALSE,
                 contexts |-> {CONTEXT_TYPE_ALL}]) >>] >>

SeparatorOnlyExtensionSection ==
  renderExtensionSection(TreeContents, TreeParams, SeparatorOnlyRuntimeData)

SectionPool ==
  { Undefined, Arr(<<>>), Arr(<<ActionItem("Reload")>>),
    Arr(<<ActionItem("Undo"), ActionItem("Redo")>>),
    LinkLikeSection, SeparatorOnlyExtensionSection }

TemplateInputs ==
  UNION { [1..n -> SectionPool] : n \in 0..MaxSections }

RunConvertSectionsToTemplate ==
  /\ tplPc = "ready"
  /\ tplTemplate' = convertSectionsToTemplate(tplSections)
  /\ tplPc' = "done"
  /\ UNCHANGED tplSections

(***************************************************************************)
(* Inputs of renderExtensionSection: the runtime data of one extension     *)
(* with at most MaxExtensionNodes nodes of every kind, parent and set of   *)
(* contexts, optionally followed by a second extension with one node.      *)
(***************************************************************************)
ExtensionContexts ==
  { {CONTEXT_TYPE_ALL}, {CONTEXT_TYPE_PAGE}, {CONTEXT_TYPE_EDITABLE}, {} }

ExtensionParentIds == {NoParent, 1}

ExtensionMenuData(parentId, type, contexts) ==
  [parentId |-> parentId, type |-> type, title |-> <<"node">>,
   enabled |-> TRUE, checked |-> FALSE, contexts |-> contexts]

ExtensionNodeLists ==
  UNION {
    { [k \in 1..n |->
         Entry(k, ExtensionMenuData(shape[k][1], shape[k][2], shape[k][3]))] :
        shape \in [1..n -> ExtensionParentIds \X TreeNodeTypes
                             \X ExtensionContexts] } :
    n \in 0..MaxExtensionNodes }

OtherExtension ==
  [extensionId |-> "other", name |-> <<"Other">>, icons |-> "other16.png",
   contextMenus |->
     << Entry(1, ExtensionMenuData(NoParent, ITEM_TYPE_NORMAL,
                               {CONTEXT_TYPE_ALL})) >>]

ExtensionRuntimeInputs ==
  { << [extensionId |-> "ext", name |-> <<"Extension">>, icons |-> "16.png",
        contextMenus |-> nodes] >> \o rest :
      nodes \in ExtensionNodeLists, rest \in {<<>>, <<OtherExtension>>} }

ExtensionParams == { [isEditable |-> b] : b \in BOOLEAN }

RunRenderExtensionSection ==
  /\ extPc = "ready"
  /\ extSection' = renderExtensionSection(TreeContents, extParams,
                                          extRuntimeData)
  /\ extRuntimeObject' = IF TreeContents.inWaveboxTab
                            THEN MungedRuntimeData(extRuntimeObject)
                            ELSE extRuntimeObject
  /\ extPc' = "done"
  /\ UNCHANGED <<extRuntimeData, extParams>>

(***************************************************************************)
(* Inputs of the composition of one menu: a surface, the parameters of the *)
(* event and, for the case that a lookup is started, its outcome.          *)
(***************************************************************************)
ComposeContents ==
  { [id |-> RootSurface, url |-> RootUrl, canGoBack |-> FALSE,
     canGoForward |-> FALSE, isDefaultSession |-> TRUE,
     inWaveboxTab |-> FALSE] }
  \cup
  { [id |-> GuestSurface, url |-> u, canGoBack |-> b,
     canGoForward |-> FALSE, isDefaultSession |-> FALSE,
     inWaveboxTab |-> TRUE] : u \in GuestUrls, b \in BOOLEAN }

ComposeParams ==
  MenuParams \cup
  { BaseParams,
    [BaseParams EXCEPT !.linkURL = <<"https://", "link">>],
    [BaseParams EXCEPT !.selectionText = <<"word">>],
    [BaseParams EXCEPT !.selectionText = <<"word">>,
                       !.misspelledWord = <<"word">>, !.isEditable = TRUE,
                       !.editFlags.canUndo = TRUE, !.editFlags.canCut = TRUE],
    [BaseParams EXCEPT !.linkURL = <<"https://", "link">>,
                       !.selectionText = <<"word">>,
                       !.misspelledWord = <<"word">>, !.isEditable = TRUE,
                       !.inputFieldType = "password",
                       !.editFlags.canUndo = TRUE,
                       !.editFlags.canPaste = TRUE] }

ComposeOutcomes ==
  { [outcome |-> "rejected", credentials |-> <<>>] }
  \cup { [outcome |-> "resolved", credentials |-> c] : c \in CredentialLists }

IdleCompose ==
  [contents |-> [id |-> RootSurface, url |-> RootUrl, canGoBack |-> FALSE,
                 canGoForward |-> FALSE, isDefaultSession |-> TRUE,
                 inWaveboxTab |-> FALSE],
   params |-> BaseParams,
   lookup |-> [outcome |-> "rejected", credentials |-> <<>>]]

\* the sections launchMenu hands to presentMenu (lines 111-126), the surface
\* and the window staying as they are while the lookup is pending
ComposedSections(contents, params, lookup) ==
  LET sections == SyncSections(contents, params, MainEnv)
  IN IF ShouldLookup(contents, params) THEN
       IF lookup.outcome = "resolved"
         THEN ThenSections(
                renderAutofillSection(contents, params, lookup.credentials),
                sections)
         ELSE CatchSections([sections |-> sections, contents |-> contents.id])
     ELSE sections

RunCompose ==
  /\ cmpPc = "ready"
  /\ cmpSections' = ComposedSections(cmpInput.contents, cmpInput.params,
                                     cmpInput.lookup)
  /\ cmpTemplate' = convertSectionsToTemplate(cmpSections')
  /\ cmpPc' = "done"
  /\ UNCHANGED cmpInput

(***************************************************************************)
(* Inputs of renderLookupAndSearchSection: selections of every length up   *)
(* to MaxSelectionLength, of letters or ending in a space, in a plain page *)
(* and in an editable field with a misspelled word.                        *)
(***************************************************************************)
SelectionText(n, last) == [i \in 1..n |-> IF i = n THEN last ELSE "a"]

SelectionTexts ==
  {SelectionText(n, last) : n \in 0..MaxSelectionLength, last \in {"a", " "}}

LookupArgs ==
  { [params |-> [BaseParams EXCEPT !.selectionText = text,
                                   !.isEditable = e,
                                   !.misspelledWord = IF e THEN <<"word">>
                                                      ELSE <<>>]] :
      text \in SelectionTexts, e \in BOOLEAN }

RunRenderLookupAndSearchSection ==
  /\ fnPc = "ready"
  /\ fnResult' = renderLookupAndSearchSection(ContentsOf(GuestSurface),
                                              fnArgs.params)
  /\ fnPc' = "done"
  /\ UNCHANGED fnArgs

(***************************************************************************)
(* The 'Copy Link Address' click (lines 211-222).  A link is a sequence of *)
(* tokens, each a piece of the string: "mailto:", "?", "http://" or text   *)
(* that holds none of them.                                                *)
(***************************************************************************)
\* str.indexOf(token) === -1
LacksToken(str, token) == \A i \in 1..Len(str) : str[i] # token

\* str.replace(token, ''): the first occurrence is removed
RECURSIVE ReplaceFirst(_, _)
ReplaceFirst(str, token) ==
  IF str = <<>> THEN <<>>
  ELSE IF Head(str) = token THEN Tail(str)
  ELSE <<Head(str)>> \o ReplaceFirst(Tail(str), token)

CopyLinkAddress_AnyMailto(linkURL) ==
  IF StartsWith(linkURL, <<"mailto:">>)
    THEN ReplaceFirst(linkURL, "mailto:")
    ELSE linkURL

\* what the click hands to clipboard.writeText
CopyLinkAddress(linkURL) ==
  IF StartsWith(linkURL, <<"mailto:">>) /\ LacksToken(linkURL, "?")
    THEN ReplaceFirst(linkURL, "mailto:")
    ELSE linkURL

LinkTokens == {"mailto:", "user@x.com", "?", "http://"}

LinkURLs == UNION { [1..n -> LinkTokens] : n \in 1..MaxLinkTokens }

CopyLinkArgs == { [params |-> [BaseParams EXCEPT !.linkURL = l]] : l \in LinkURLs }

\* the URL section is rendered for the link and its 'Copy Link Address'
\* item is clicked
RunCopyLinkAddress ==
  /\ fnPc = "ready"
  /\ LET contents == ContentsOf(GuestSurface)
         section == renderURLSection(contents, fnArgs.params,
                                     getMenuAccountInfo(contents.id, MainEnv),
                                     contents.isDefaultSession, MainEnv)
         copy == CHOOSE k \in 1..Len(section.items) :
                   /\ HasKey(section.items[k], "click")
                   /\ section.items[k].click.fn = "copyLinkAddress"
     IN fnResult' =
          [label |-> section.items[copy].label,
           clipboard |->
             CopyLinkAddress(section.items[copy].click.args.linkURL)]
  /\ fnPc' = "done"
  /\ UNCHANGED fnArgs

(***************************************************************************)
(* Inputs of extensionOptionSelected: a click on an item of the live guest *)
(* surface, for a node of every kind and checked state.                    *)
(***************************************************************************)
ClickNodes ==
  { [extensionId |-> "ext", id |-> id, parentId |-> parentId, type |-> type,
     title |-> <<"node">>, enabled |-> TRUE, checked |-> checked,
     contexts |-> {CONTEXT_TYPE_ALL}] :
      id \in 1..MaxNodes, parentId \in 0..1, checked \in BOOLEAN,
      type \in {ITEM_TYPE_NORMAL, ITEM_TYPE_CHECKBOX, ITEM_TYPE_RADIO,
                ITEM_TYPE_SEPERATOR, "unknown"} }

ClickArgs ==
  { ExtensionClick([id |-> GuestSurface], "ext", menuItem,
                   [BaseParams EXCEPT !.mediaType = mediaType]) :
      menuItem \in ClickNodes, mediaType \in {"none", "image"} }

RunExtensionOptionSelected ==
  /\ fnPc = "ready"
  /\ fnResult' = extensionOptionSelected(fnArgs)
  /\ fnPc' = "done"
  /\ UNCHANGED fnArgs

(***************************************************************************)
(* Inputs of renderSpellingSection: what spellSuggestionsSync returns, a   *)
(* primary and a secondary entry, each absent or a language with at most   *)
(* MaxSuggestions suggestions, for every editable / misspelled combination.*)
(***************************************************************************)
SuggestionLists ==
  UNION { [1..n -> {"helo", "hello"}] : n \in 0..MaxSuggestions }

SuggestionResults ==
  { [none |-> TRUE] }
  \cup { [primary |-> [language |-> "en", suggestions |-> l]] :
           l \in SuggestionLists }
  \cup { [secondary |-> [language |-> "fr", suggestions |-> l]] :
           l \in SuggestionLists }
  \cup { [primary |-> [language |-> "en", suggestions |-> l],
          secondary |-> [language |-> "fr", suggestions |-> m]] :
           l \in SuggestionLists, m \in SuggestionLists }

SpellingArgs ==
  { [params |-> [BaseParams EXCEPT !.isEditable = e, !.misspelledWord = w],
     spellSuggestions |-> r] :
      e \in BOOLEAN, w \in {<<>>, <<"helo">>}, r \in SuggestionResults }

RunRenderSpellingSection ==
  /\ fnPc = "ready"
  /\ fnResult' = renderSpellingSection(
                    [id |-> GuestSurface], fnArgs.params,
                    [spellSuggestions |-> fnArgs.spellSuggestions])
  /\ fnPc' = "done"
  /\ UNCHANGED fnArgs

(***************************************************************************)
(* The click on a service entry of 'Open Link in Account Profile' in the   *)
(* expanded mode (lines 267-309).  The closures are those the renderer     *)
(* builds for two mailboxes with one service each; the mailboxes window    *)
(* and the tabs of the services change between the click and the timer.    *)
(***************************************************************************)
LinkServices == {"s1", "s2"}

\* the stores with two mailboxes and the advanced link options switched on
LinkEnv(sleeping) ==
  [MainEnv EXCEPT
     !.mailboxIds = <<"m1", "m2">>,
     !.mailboxes = ("m1" :> [id |-> "m1", allServices |-> <<"s1">>,
                             partitionId |-> "p1"])
                   @@ ("m2" :> [id |-> "m2", allServices |-> <<"s2">>,
                                partitionId |-> "p2"]),
     !.sleeping = sleeping,
     !.showCtxMenuAdvancedLinkOptions = TRUE]

\* the click closures of the service entries AccountProfileItems renders
ServiceClicks ==
  UNION {
    LET mailboxItems ==
          AccountProfileItems([id |-> GuestSurface],
                              [BaseParams EXCEPT !.linkURL = target],
                              LinkEnv(sleeping))[1].submenu
    IN { mailboxItems[i].submenu[3].click : i \in 1..Len(mailboxItems) } :
    target \in {<<"https://", "shop">>, <<"http://", "news">>},
    sleeping \in SUBSET LinkServices }

LinkCall(fn, arg) == [fn |-> fn, arg |-> arg]

\* lines 274-285 and 288-298: the mailboxes window, the tab of the service
\* in it, and its webContents if that is alive
FindServiceSurface(window, tabs, serviceId) ==
  IF ~window THEN Undefined
  ELSE IF tabs[serviceId] = "none" THEN Undefined
  ELSE IF tabs[serviceId] = "destroyed" THEN Undefined
  ELSE [serviceId |-> serviceId]

ServiceItemClicked_LoadsAtOnce(click, surface) ==
  IF click.args.sleepingAtRender
    THEN [calls |-> << LinkCall("awakenService", click.args.serviceId) >>
                    \o (IF surface # Undefined
                          THEN << LinkCall("loadURL", click.args.linkURL) >>
                          ELSE <<>>)
                    \o << LinkCall("changeActiveService",
                                   click.args.serviceId) >>,
          pc |-> "done"]
  ELSE IF surface # Undefined
    THEN [calls |-> << LinkCall("loadURL", click.args.linkURL),
                       LinkCall("changeActiveService", click.args.serviceId) >>,
          pc |-> "done"]
  ELSE [calls |-> <<>>, pc |-> "done"]

\* the synchronous part of the click handler (lines 268-271 and 287-301)
ServiceItemClicked(click, surface) ==
  IF click.args.sleepingAtRender
    THEN [calls |-> << LinkCall("awakenService", click.args.serviceId),
                       LinkCall("changeActiveService", click.args.serviceId) >>,
          pc |-> "timer"]
  ELSE IF surface # Undefined
    THEN [calls |-> << LinkCall("loadURL", click.args.linkURL),
                       LinkCall("changeActiveService", click.args.serviceId) >>,
          pc |-> "done"]
  ELSE [calls |-> <<>>, pc |-> "done"]

\* the user picks the service entry
ClickServiceItem ==
  /\ lnkPc = "ready"
  /\ LET ran == ServiceItemClicked(
                  lnkClick,
                  FindServiceSurface(lnkWindow, lnkTabs,
                                     lnkClick.args.serviceId))
     IN /\ lnkCalls' = ran.calls
        /\ lnkPc' = ran.pc
  /\ UNCHANGED <<lnkClick, lnkWindow, lnkTabs>>

\* the callback handed to setTimeout (lines 272-286)
ServiceTimerFired ==
  /\ lnkPc = "timer"
  /\ lnkCalls' =
       IF FindServiceSurface(lnkWindow, lnkTabs, lnkClick.args.serviceId)
            # Undefined
         THEN Append(lnkCalls, LinkCall("loadURL", lnkClick.args.linkURL))
         ELSE lnkCalls
  /\ lnkPc' = "done"
  /\ UNCHANGED <<lnkClick, lnkWindow, lnkTabs>>

\* the mailboxes window opens the tab of a service
ServiceTabOpened(service) ==
  /\ lnkPc \in {"ready", "timer"}
  /\ lnkWindow
  /\ lnkTabs[service] = "none"
  /\ lnkTabs' = [lnkTabs EXCEPT ![service] = "live"]
  /\ UNCHANGED <<lnkClick, lnkWindow, lnkCalls, lnkPc>>

\* the surface of a service's tab is destroyed
ServiceTabDestroyed(service) ==
  /\ lnkPc \in {"ready", "timer"}
  /\ lnkTabs[service] = "live"
  /\ lnkTabs' = [lnkTabs EXCEPT ![service] = "destroyed"]
  /\ UNCHANGED <<lnkClick, lnkWindow, lnkCalls, lnkPc>>

\* the mailboxes window is closed
MailboxesWindowClosed ==
  /\ lnkPc \in {"ready", "timer"}
  /\ lnkWindow
  /\ lnkWindow' = FALSE
  /\ UNCHANGED <<lnkClick, lnkTabs, lnkCalls, lnkPc>>

(***************************************************************************)
(* Specifications.                                                         *)
(***************************************************************************)
vars == <<svcVars, pureVars, logVars>>

\* The binding registry from the construction of the service on: the
\* surfaces and the window are created, attached and destroyed, the deferred
\* validations run, menus are requested and close.  The autofill library is
\* not available, so every menu is presented synchronously.
Init ==
  /\ fnArgs = [none |-> TRUE]
  /\ fnResult = [none |-> TRUE]
  /\ fnPc = "idle"
  /\ lnkClick = [none |-> TRUE]
  /\ lnkWindow = FALSE
  /\ lnkTabs = [s \in LinkServices |-> "none"]
  /\ lnkCalls = <<>>
  /\ lnkPc = "idle"
  /\ validations = [s \in Surfaces |-> <<>>]
  /\ cmpInput = IdleCompose
  /\ cmpSections = <<>>
  /\ cmpTemplate = <<>>
  /\ cmpPc = "idle"
  /\ extRuntimeData = <<>>
  /\ extRuntimeObject = <<>>
  /\ extParams = [isEditable |-> FALSE]
  /\ extSection = Arr(<<>>)
  /\ extPc = "idle"
  /\ clicks = <<>>
  /\ autofillAvailable = FALSE
  /\ winPolicy \in {"plain", "rootMenu", "noRootMenu"}
  /\ winState = "none"
  /\ sphase = [s \in Surfaces |-> "none"]
  /\ url = [s \in Surfaces |-> RootUrl]
  /\ canGoBack = [s \in Surfaces |-> FALSE]
  /\ immediates = <<>>
  /\ privConnected = {}
  /\ listeners = [s \in Surfaces |-> [contextMenu |-> 0, destroyed |-> 0]]
  /\ requests = 0
  /\ invocations = <<>>
  /\ menus = <<>>
  /\ treeNodes = <<>>
  /\ treeState = EmptyTree
  /\ treePc = "idle"
  /\ tplSections = <<>>
  /\ tplTemplate = <<>>
  /\ tplPc = "idle"

Next ==
  \/ \E s \in Surfaces : WebContentsCreated(s) /\ UNCHANGED <<pureVars, logVars>>
  \/ BrowserWindowCreated /\ UNCHANGED <<pureVars, logVars>>
  \/ GuestAttached /\ UNCHANGED <<pureVars, logVars>>
  \/ RunImmediate /\ UNCHANGED <<pureVars, clicks>>
  \/ \E s \in Surfaces : SurfaceDestroyed(s) /\ UNCHANGED <<pureVars, logVars>>
  \/ WindowClosed /\ UNCHANGED <<pureVars, logVars>>
  \/ \E s \in Surfaces, params \in MenuParams :
       ContextRequested(s, params) /\ UNCHANGED <<pureVars, logVars>>
  \/ \E m \in 1..Len(menus) : MenuClosed(m) /\ UNCHANGED <<pureVars, logVars>>
  \/ \E m \in 1..Len(menus) : \E k \in 1..Len(menus[m].template) :
       ExtensionOptionClicked(m, k) /\ UNCHANGED <<pureVars, validations>>

Spec == Init /\ [][Next]_vars

\* The menu pipeline on a window that opts its root surface out of the
\* menu, with both surfaces attached and the guest bound (a state Spec
\* reaches): menus are requested, the page navigates, the
\* credential lookups resolve or reject, surfaces and the window go away,
\* menus close.
InitMenu ==
  /\ fnArgs = [none |-> TRUE]
  /\ fnResult = [none |-> TRUE]
  /\ fnPc = "idle"
  /\ lnkClick = [none |-> TRUE]
  /\ lnkWindow = FALSE
  /\ lnkTabs = [s \in LinkServices |-> "none"]
  /\ lnkCalls = <<>>
  /\ lnkPc = "idle"
  /\ validations = [s \in Surfaces |-> <<>>]
  /\ cmpInput = IdleCompose
  /\ cmpSections = <<>>
  /\ cmpTemplate = <<>>
  /\ cmpPc = "idle"
  /\ extRuntimeData = <<>>
  /\ extRuntimeObject = <<>>
  /\ extParams = [isEditable |-> FALSE]
  /\ extSection = Arr(<<>>)
  /\ extPc = "idle"
  /\ clicks = <<>>
  /\ autofillAvailable \in BOOLEAN
  /\ winPolicy = "noRootMenu"
  /\ winState = "open"
  /\ sphase = [s \in Surfaces |-> "attached"]
  /\ url \in {[s \in Surfaces |-> IF s = RootSurface THEN RootUrl ELSE u] :
                u \in GuestUrls}
  /\ canGoBack = [s \in Surfaces |-> FALSE]
  /\ immediates = <<>>
  /\ privConnected = {GuestSurface}
  /\ listeners = [s \in Surfaces |->
                    IF s = GuestSurface
                      THEN [contextMenu |-> 1, destroyed |-> 1]
                      ELSE [contextMenu |-> 0, destroyed |-> 0]]
  /\ requests = 0
  /\ invocations = <<>>
  /\ menus = <<>>
  /\ treeNodes = <<>>
  /\ treeState = EmptyTree
  /\ treePc = "idle"
  /\ tplSections = <<>>
  /\ tplTemplate = <<>>
  /\ tplPc = "idle"

NextMenu ==
  \/ \E s \in Surfaces, params \in MenuParams :
       ContextRequested(s, params) /\ UNCHANGED <<pureVars, logVars>>
  \/ \E s \in Surfaces, u \in GuestUrls :
       Navigated(s, u) /\ UNCHANGED <<pureVars, logVars>>
  \/ \E i \in 1..Len(invocations), credentials \in CredentialLists :
       LookupResolved(i, credentials) /\ UNCHANGED <<pureVars, logVars>>
  \/ \E i \in 1..Len(invocations) :
       LookupRejected(i) /\ UNCHANGED <<pureVars, logVars>>
  \/ \E s \in Surfaces : SurfaceDestroyed(s) /\ UNCHANGED <<pureVars, logVars>>
  \/ WindowClosed /\ UNCHANGED <<pureVars, logVars>>
  \/ \E m \in 1..Len(menus) : MenuClosed(m) /\ UNCHANGED <<pureVars, logVars>>

SpecMenu == InitMenu /\ [][NextMenu]_vars

\* The pipeline on a page that does not navigate, every popup reporting its
\* close: a menu that is open is eventually dismissed (selection, escape,
\* click outside) and its callback runs.
InitMenuLive ==
  /\ fnArgs = [none |-> TRUE]
  /\ fnResult = [none |-> TRUE]
  /\ fnPc = "idle"
  /\ lnkClick = [none |-> TRUE]
  /\ lnkWindow = FALSE
  /\ lnkTabs = [s \in LinkServices |-> "none"]
  /\ lnkCalls = <<>>
  /\ lnkPc = "idle"
  /\ validations = [s \in Surfaces |-> <<>>]
  /\ cmpInput = IdleCompose
  /\ cmpSections = <<>>
  /\ cmpTemplate = <<>>
  /\ cmpPc = "idle"
  /\ extRuntimeData = <<>>
  /\ extRuntimeObject = <<>>
  /\ extParams = [isEditable |-> FALSE]
  /\ extSection = Arr(<<>>)
  /\ extPc = "idle"
  /\ clicks = <<>>
  /\ autofillAvailable \in BOOLEAN
  /\ winPolicy = "noRootMenu"
  /\ winState = "open"
  /\ sphase = [s \in Surfaces |-> "attached"]
  /\ url = [s \in Surfaces |->
              IF s = RootSurface THEN RootUrl ELSE <<"https://", "bank">>]
  /\ canGoBack = [s \in Surfaces |-> FALSE]
  /\ immediates = <<>>
  /\ privConnected = {GuestSurface}
  /\ listeners = [s \in Surfaces |->
                    IF s = GuestSurface
                      THEN [contextMenu |-> 1, destroyed |-> 1]
                      ELSE [contextMenu |-> 0, destroyed |-> 0]]
  /\ requests = 0
  /\ invocations = <<>>
  /\ menus = <<>>
  /\ treeNodes = <<>>
  /\ treeState = EmptyTree
  /\ treePc = "idle"
  /\ tplSections = <<>>
  /\ tplTemplate = <<>>
  /\ tplPc = "idle"

NextMenuLive ==
  \/ \E s \in Surfaces, params \in MenuParams :
       ContextRequested(s, params) /\ UNCHANGED <<pureVars, logVars>>
  \/ \E i \in 1..Len(invocations), credentials \in CredentialLists :
       LookupResolved(i, credentials) /\ UNCHANGED <<pureVars, logVars>>
  \/ \E i \in 1..Len(invocations) :
       LookupRejected(i) /\ UNCHANGED <<pureVars, logVars>>
  \/ \E s \in Surfaces : SurfaceDestroyed(s) /\ UNCHANGED <<pureVars, logVars>>
  \/ WindowClosed /\ UNCHANGED <<pureVars, logVars>>
  \/ \E m \in 1..Len(menus) : MenuClosed(m) /\ UNCHANGED <<pureVars, logVars>>

SpecMenuLive ==
  /\ InitMenuLive
  /\ [][NextMenuLive]_vars
  /\ \A m \in 1..MaxRequests :
       WF_vars(MenuClosed(m) /\ UNCHANGED <<pureVars, logVars>>)

\* renderExtensionMenuTree applied to every bounded node list
NextTree == RunRenderExtensionMenuTree /\ UNCHANGED <<svcVars, tplVars, extVars, cmpVars, fnVars, lnkVars,
                 logVars>>

InitTree ==
  /\ fnArgs = [none |-> TRUE]
  /\ fnResult = [none |-> TRUE]
  /\ fnPc = "idle"
  /\ lnkClick = [none |-> TRUE]
  /\ lnkWindow = FALSE
  /\ lnkTabs = [s \in LinkServices |-> "none"]
  /\ lnkCalls = <<>>
  /\ lnkPc = "idle"
  /\ validations = [s \in Surfaces |-> <<>>]
  /\ cmpInput = IdleCompose
  /\ cmpSections = <<>>
  /\ cmpTemplate = <<>>
  /\ cmpPc = "idle"
  /\ extRuntimeData = <<>>
  /\ extRuntimeObject = <<>>
  /\ extParams = [isEditable |-> FALSE]
  /\ extSection = Arr(<<>>)
  /\ extPc = "idle"
  /\ clicks = <<>>
  /\ treeNodes \in TreeInputs
  /\ treeState = EmptyTree
  /\ treePc = "ready"
  /\ tplSections = <<>>
  /\ tplTemplate = <<>>
  /\ tplPc = "idle"
  /\ autofillAvailable = FALSE
  /\ winPolicy = "plain"
  /\ winState = "none"
  /\ sphase = [s \in Surfaces |-> "none"]
  /\ url = [s \in Surfaces |-> RootUrl]
  /\ canGoBack = [s \in Surfaces |-> FALSE]
  /\ immediates = <<>>
  /\ privConnected = {}
  /\ listeners = [s \in Surfaces |-> [contextMenu |-> 0, destroyed |-> 0]]
  /\ requests = 0
  /\ invocations = <<>>
  /\ menus = <<>>

SpecTree == InitTree /\ [][NextTree]_vars

\* convertSectionsToTemplate applied to every bounded list of sections
NextTemplate == RunConvertSectionsToTemplate /\ UNCHANGED <<svcVars, treeVars, extVars, cmpVars, fnVars, lnkVars,
                 logVars>>

InitTemplate ==
  /\ fnArgs = [none |-> TRUE]
  /\ fnResult = [none |-> TRUE]
  /\ fnPc = "idle"
  /\ lnkClick = [none |-> TRUE]
  /\ lnkWindow = FALSE
  /\ lnkTabs = [s \in LinkServices |-> "none"]
  /\ lnkCalls = <<>>
  /\ lnkPc = "idle"
  /\ validations = [s \in Surfaces |-> <<>>]
  /\ cmpInput = IdleCompose
  /\ cmpSections = <<>>
  /\ cmpTemplate = <<>>
  /\ cmpPc = "idle"
  /\ extRuntimeData = <<>>
  /\ extRuntimeObject = <<>>
  /\ extParams = [isEditable |-> FALSE]
  /\ extSection = Arr(<<>>)
  /\ extPc = "idle"
  /\ clicks = <<>>
  /\ tplSections \in TemplateInputs
  /\ tplTemplate = <<>>
  /\ tplPc = "ready"
  /\ treeNodes = <<>>
  /\ treeState = EmptyTree
  /\ treePc = "idle"
  /\ autofillAvailable = FALSE
  /\ winPolicy = "plain"
  /\ winState = "none"
  /\ sphase = [s \in Surfaces |-> "none"]
  /\ url = [s \in Surfaces |-> RootUrl]
  /\ canGoBack = [s \in Surfaces |-> FALSE]
  /\ immediates = <<>>
  /\ privConnected = {}
  /\ listeners = [s \in Surfaces |-> [contextMenu |-> 0, destroyed |-> 0]]
  /\ requests = 0
  /\ invocations = <<>>
  /\ menus = <<>>

SpecTemplate == InitTemplate /\ [][NextTemplate]_vars

\* renderExtensionSection applied to every bounded set of runtime data
NextExtension ==
  RunRenderExtensionSection /\ UNCHANGED <<svcVars, treeVars, tplVars, cmpVars, fnVars, lnkVars,
                 logVars>>

InitExtension ==
  /\ fnArgs = [none |-> TRUE]
  /\ fnResult = [none |-> TRUE]
  /\ fnPc = "idle"
  /\ lnkClick = [none |-> TRUE]
  /\ lnkWindow = FALSE
  /\ lnkTabs = [s \in LinkServices |-> "none"]
  /\ lnkCalls = <<>>
  /\ lnkPc = "idle"
  /\ validations = [s \in Surfaces |-> <<>>]
  /\ cmpInput = IdleCompose
  /\ cmpSections = <<>>
  /\ cmpTemplate = <<>>
  /\ cmpPc = "idle"
  /\ extRuntimeData \in ExtensionRuntimeInputs
  /\ extRuntimeObject = extRuntimeData
  /\ extParams \in ExtensionParams
  /\ extSection = Arr(<<>>)
  /\ extPc = "ready"
  /\ clicks = <<>>
  /\ tplSections = <<>>
  /\ tplTemplate = <<>>
  /\ tplPc = "idle"
  /\ treeNodes = <<>>
  /\ treeState = EmptyTree
  /\ treePc = "idle"
  /\ autofillAvailable = FALSE
  /\ winPolicy = "plain"
  /\ winState = "none"
  /\ sphase = [s \in Surfaces |-> "none"]
  /\ url = [s \in Surfaces |-> RootUrl]
  /\ canGoBack = [s \in Surfaces |-> FALSE]
  /\ immediates = <<>>
  /\ privConnected = {}
  /\ listeners = [s \in Surfaces |-> [contextMenu |-> 0, destroyed |-> 0]]
  /\ requests = 0
  /\ invocations = <<>>
  /\ menus = <<>>

SpecExtension == InitExtension /\ [][NextExtension]_vars

\* launchMenu's sections and presentMenu's template for every bounded
\* surface, event and lookup outcome
NextCompose ==
  RunCompose /\ UNCHANGED <<svcVars, treeVars, tplVars, extVars, fnVars, lnkVars,
                 logVars>>

InitCompose ==
  /\ fnArgs = [none |-> TRUE]
  /\ fnResult = [none |-> TRUE]
  /\ fnPc = "idle"
  /\ lnkClick = [none |-> TRUE]
  /\ lnkWindow = FALSE
  /\ lnkTabs = [s \in LinkServices |-> "none"]
  /\ lnkCalls = <<>>
  /\ lnkPc = "idle"
  /\ validations = [s \in Surfaces |-> <<>>]
  /\ cmpInput \in [contents : ComposeContents, params : ComposeParams,
                   lookup : ComposeOutcomes]
  /\ cmpSections = <<>>
  /\ cmpTemplate = <<>>
  /\ cmpPc = "ready"
  /\ extRuntimeData = <<>>
  /\ extRuntimeObject = <<>>
  /\ extParams = [isEditable |-> FALSE]
  /\ extSection = Arr(<<>>)
  /\ extPc = "idle"
  /\ clicks = <<>>
  /\ tplSections = <<>>
  /\ tplTemplate = <<>>
  /\ tplPc = "idle"
  /\ treeNodes = <<>>
  /\ treeState = EmptyTree
  /\ treePc = "idle"
  /\ autofillAvailable \in BOOLEAN
  /\ winPolicy = "plain"
  /\ winState = "open"
  /\ sphase = [s \in Surfaces |-> "attached"]
  /\ url = [s \in Surfaces |-> RootUrl]
  /\ canGoBack = [s \in Surfaces |-> FALSE]
  /\ immediates = <<>>
  /\ privConnected = {}
  /\ listeners = [s \in Surfaces |-> [contextMenu |-> 0, destroyed |-> 0]]
  /\ requests = 0
  /\ invocations = <<>>
  /\ menus = <<>>

SpecCompose == InitCompose /\ [][NextCompose]_vars

\* renderLookupAndSearchSection applied to every bounded selection
NextLookup ==
  RunRenderLookupAndSearchSection
    /\ UNCHANGED <<svcVars, treeVars, tplVars, extVars, cmpVars, lnkVars,
                 logVars>>

InitLookup ==
  /\ fnArgs \in LookupArgs
  /\ fnResult = [none |-> TRUE]
  /\ fnPc = "ready"
  /\ lnkClick = [none |-> TRUE]
  /\ lnkWindow = FALSE
  /\ lnkTabs = [s \in LinkServices |-> "none"]
  /\ lnkCalls = <<>>
  /\ lnkPc = "idle"
  /\ validations = [s \in Surfaces |-> <<>>]
  /\ cmpInput = IdleCompose
  /\ cmpSections = <<>>
  /\ cmpTemplate = <<>>
  /\ cmpPc = "idle"
  /\ extRuntimeData = <<>>
  /\ extRuntimeObject = <<>>
  /\ extParams = [isEditable |-> FALSE]
  /\ extSection = Arr(<<>>)
  /\ extPc = "idle"
  /\ clicks = <<>>
  /\ tplSections = <<>>
  /\ tplTemplate = <<>>
  /\ tplPc = "idle"
  /\ treeNodes = <<>>
  /\ treeState = EmptyTree
  /\ treePc = "idle"
  /\ autofillAvailable = FALSE
  /\ winPolicy = "plain"
  /\ winState = "none"
  /\ sphase = [s \in Surfaces |-> "none"]
  /\ url = [s \in Surfaces |-> RootUrl]
  /\ canGoBack = [s \in Surfaces |-> FALSE]
  /\ immediates = <<>>
  /\ privConnected = {}
  /\ listeners = [s \in Surfaces |-> [contextMenu |-> 0, destroyed |-> 0]]
  /\ requests = 0
  /\ invocations = <<>>
  /\ menus = <<>>

SpecLookup == InitLookup /\ [][NextLookup]_vars

\* the 'Copy Link Address' click on every bounded link
NextCopyLink ==
  RunCopyLinkAddress
    /\ UNCHANGED <<svcVars, treeVars, tplVars, extVars, cmpVars, lnkVars,
                 logVars>>

InitCopyLink ==
  /\ fnArgs \in CopyLinkArgs
  /\ fnResult = [none |-> TRUE]
  /\ fnPc = "ready"
  /\ lnkClick = [none |-> TRUE]
  /\ lnkWindow = FALSE
  /\ lnkTabs = [s \in LinkServices |-> "none"]
  /\ lnkCalls = <<>>
  /\ lnkPc = "idle"
  /\ validations = [s \in Surfaces |-> <<>>]
  /\ cmpInput = IdleCompose
  /\ cmpSections = <<>>
  /\ cmpTemplate = <<>>
  /\ cmpPc = "idle"
  /\ extRuntimeData = <<>>
  /\ extRuntimeObject = <<>>
  /\ extParams = [isEditable |-> FALSE]
  /\ extSection = Arr(<<>>)
  /\ extPc = "idle"
  /\ clicks = <<>>
  /\ tplSections = <<>>
  /\ tplTemplate = <<>>
  /\ tplPc = "idle"
  /\ treeNodes = <<>>
  /\ treeState = EmptyTree
  /\ treePc = "idle"
  /\ autofillAvailable = FALSE
  /\ winPolicy = "plain"
  /\ winState = "none"
  /\ sphase = [s \in Surfaces |-> "none"]
  /\ url = [s \in Surfaces |-> RootUrl]
  /\ canGoBack = [s \in Surfaces |-> FALSE]
  /\ immediates = <<>>
  /\ privConnected = {}
  /\ listeners = [s \in Surfaces |-> [contextMenu |-> 0, destroyed |-> 0]]
  /\ requests = 0
  /\ invocations = <<>>
  /\ menus = <<>>

SpecCopyLink == InitCopyLink /\ [][NextCopyLink]_vars

\* extensionOptionSelected applied to a click on every kind of node
NextClick ==
  RunExtensionOptionSelected
    /\ UNCHANGED <<svcVars, treeVars, tplVars, extVars, cmpVars, lnkVars,
                 logVars>>

InitClick ==
  /\ fnArgs \in ClickArgs
  /\ fnResult = [none |-> TRUE]
  /\ fnPc = "ready"
  /\ lnkClick = [none |-> TRUE]
  /\ lnkWindow = FALSE
  /\ lnkTabs = [s \in LinkServices |-> "none"]
  /\ lnkCalls = <<>>
  /\ lnkPc = "idle"
  /\ winState = "open"
  /\ sphase = [s \in Surfaces |-> "attached"]
  /\ validations = [s \in Surfaces |-> <<>>]
  /\ cmpInput = IdleCompose
  /\ cmpSections = <<>>
  /\ cmpTemplate = <<>>
  /\ cmpPc = "idle"
  /\ extRuntimeData = <<>>
  /\ extRuntimeObject = <<>>
  /\ extParams = [isEditable |-> FALSE]
  /\ extSection = Arr(<<>>)
  /\ extPc = "idle"
  /\ clicks = <<>>
  /\ tplSections = <<>>
  /\ tplTemplate = <<>>
  /\ tplPc = "idle"
  /\ treeNodes = <<>>
  /\ treeState = EmptyTree
  /\ treePc = "idle"
  /\ autofillAvailable = FALSE
  /\ winPolicy = "plain"
  /\ url = [s \in Surfaces |-> RootUrl]
  /\ canGoBack = [s \in Surfaces |-> FALSE]
  /\ immediates = <<>>
  /\ privConnected = {}
  /\ listeners = [s \in Surfaces |-> [contextMenu |-> 0, destroyed |-> 0]]
  /\ requests = 0
  /\ invocations = <<>>
  /\ menus = <<>>

SpecClick == InitClick /\ [][NextClick]_vars

\* renderSpellingSection applied to every bounded suggestion result
NextSpelling ==
  RunRenderSpellingSection
    /\ UNCHANGED <<svcVars, treeVars, tplVars, extVars, cmpVars, lnkVars,
                 logVars>>

InitSpelling ==
  /\ fnArgs \in SpellingArgs
  /\ fnResult = [none |-> TRUE]
  /\ fnPc = "ready"
  /\ lnkClick = [none |-> TRUE]
  /\ lnkWindow = FALSE
  /\ lnkTabs = [s \in LinkServices |-> "none"]
  /\ lnkCalls = <<>>
  /\ lnkPc = "idle"
  /\ validations = [s \in Surfaces |-> <<>>]
  /\ cmpInput = IdleCompose
  /\ cmpSections = <<>>
  /\ cmpTemplate = <<>>
  /\ cmpPc = "idle"
  /\ extRuntimeData = <<>>
  /\ extRuntimeObject = <<>>
  /\ extParams = [isEditable |-> FALSE]
  /\ extSection = Arr(<<>>)
  /\ extPc = "idle"
  /\ clicks = <<>>
  /\ tplSections = <<>>
  /\ tplTemplate = <<>>
  /\ tplPc = "idle"
  /\ treeNodes = <<>>
  /\ treeState = EmptyTree
  /\ treePc = "idle"
  /\ autofillAvailable = FALSE
  /\ winPolicy = "plain"
  /\ winState = "none"
  /\ sphase = [s \in Surfaces |-> "none"]
  /\ url = [s \in Surfaces |-> RootUrl]
  /\ canGoBack = [s \in Surfaces |-> FALSE]
  /\ immediates = <<>>
  /\ privConnected = {}
  /\ listeners = [s \in Surfaces |-> [contextMenu |-> 0, destroyed |-> 0]]
  /\ requests = 0
  /\ invocations = <<>>
  /\ menus = <<>>

SpecSpelling == InitSpelling /\ [][NextSpelling]_vars

\* one click on a service entry, on every closure the renderer builds; the
\* mailboxes window is open and has no tab yet, and the window and the tabs
\* come and go before the click and before the timer
NextServiceLink ==
  \/ ClickServiceItem
      /\ UNCHANGED <<svcVars, treeVars, tplVars, extVars, cmpVars, fnVars,
                     logVars>>
  \/ ServiceTimerFired
      /\ UNCHANGED <<svcVars, treeVars, tplVars, extVars, cmpVars, fnVars,
                     logVars>>
  \/ \E service \in LinkServices :
       ServiceTabOpened(service)
         /\ UNCHANGED <<svcVars, treeVars, tplVars, extVars, cmpVars, fnVars,
                        logVars>>
  \/ \E service \in LinkServices :
       ServiceTabDestroyed(service)
         /\ UNCHANGED <<svcVars, treeVars, tplVars, extVars, cmpVars, fnVars,
                        logVars>>
  \/ MailboxesWindowClosed
      /\ UNCHANGED <<svcVars, treeVars, tplVars, extVars, cmpVars, fnVars,
                     logVars>>

InitServiceLink ==
  /\ lnkClick \in ServiceClicks
  /\ lnkWindow = TRUE
  /\ lnkTabs = [s \in LinkServices |-> "none"]
  /\ lnkCalls = <<>>
  /\ lnkPc = "ready"
  /\ fnArgs = [none |-> TRUE]
  /\ fnResult = [none |-> TRUE]
  /\ fnPc = "idle"
  /\ validations = [s \in Surfaces |-> <<>>]
  /\ cmpInput = IdleCompose
  /\ cmpSections = <<>>
  /\ cmpTemplate = <<>>
  /\ cmpPc = "idle"
  /\ extRuntimeData = <<>>
  /\ extRuntimeObject = <<>>
  /\ extParams = [isEditable |-> FALSE]
  /\ extSection = Arr(<<>>)
  /\ extPc = "idle"
  /\ clicks = <<>>
  /\ tplSections = <<>>
  /\ tplTemplate = <<>>
  /\ tplPc = "idle"
  /\ treeNodes = <<>>
  /\ treeState = EmptyTree
  /\ treePc = "idle"
  /\ autofillAvailable = FALSE
  /\ winPolicy = "plain"
  /\ winState = "none"
  /\ sphase = [s \in Surfaces |-> "none"]
  /\ url = [s \in Surfaces |-> RootUrl]
  /\ canGoBack = [s \in Surfaces |-> FALSE]
  /\ immediates = <<>>
  /\ privConnected = {}
  /\ listeners = [s \in Surfaces |-> [contextMenu |-> 0, destroyed |-> 0]]
  /\ requests = 0
  /\ invocations = <<>>
  /\ menus = <<>>

SpecServiceLink == InitServiceLink /\ [][NextServiceLink]_vars

(***************************************************************************)
(* Properties of convertSectionsToTemplate.                                *)
(***************************************************************************)
NoEdgeOrDoubleSeparator(template) ==
  /\ Len(template) > 0 =>
       /\ ~IsSeparator(template[1])
       /\ ~IsSeparator(template[Len(template)])
  /\ \A i \in 1..(Len(template) - 1) :
       ~(IsSeparator(template[i]) /\ IsSeparator(template[i + 1]))

\* C2: for every list of sections the template returned by
\* convertSectionsToTemplate has no separator as its first item, none as its
\* last item, and no two consecutive separators.
C2_TemplateSeparatorsWellPlaced ==
  tplPc = "done" => NoEdgeOrDoubleSeparator(tplTemplate)

(***************************************************************************)
(* Properties of renderExtensionMenuTree.                                  *)
(***************************************************************************)
InRoot(st, ref) == \E i \in 1..Len(st.root) : st.root[i] = ref

InSubmenuOf(st, parent, ref) ==
  /\ HasKey(st.objs[parent], "submenu")
  /\ \E i \in 1..Len(st.objs[parent].submenu) :
       st.objs[parent].submenu[i] = ref

InSomeSubmenu(st, ref) ==
  \E parent \in 1..Len(st.objs) : InSubmenuOf(st, parent, ref)

\* the number of places (of root, or of a submenu) that hold ref
Occurrences(st, ref) ==
  Cardinality({i \in 1..Len(st.root) : st.root[i] = ref})
  + Cardinality({pi \in (1..Len(st.objs)) \X (1..Len(st.objs)) :
       /\ HasKey(st.objs[pi[1]], "submenu")
       /\ pi[2] <= Len(st.objs[pi[1]].submenu)
       /\ st.objs[pi[1]].submenu[pi[2]] = ref})

\* the references reachable from root through at most n submenu levels
RECURSIVE ReachableWithin(_, _)
ReachableWithin(st, n) ==
  IF n = 0 THEN {st.root[i] : i \in 1..Len(st.root)}
  ELSE LET prev == ReachableWithin(st, n - 1)
       IN prev \cup {ref \in 1..Len(st.objs) :
                       \E parent \in prev : InSubmenuOf(st, parent, ref)}

Reachable(st) == ReachableWithin(st, Len(st.objs))

Indexed(st) == {st.index[id] : id \in DOMAIN st.index}

\* the k-th node was rendered, and its parentId is the id of a node
\* rendered earlier in the list
ParentRenderedEarlier(k) ==
  /\ treeState.made[k] # 0
  /\ \E j \in 1..(k - 1) :
       treeNodes[j].id = treeNodes[k].parentId /\ treeState.made[j] # 0

\* the k-th node was rendered, and its parentId is the id of a later node
\* or of no node at all
ParentLaterOrAbsent(k) ==
  /\ treeState.made[k] # 0
  /\ treeNodes[k].parentId # NoParent
  /\ \A j \in 1..Len(treeNodes) :
       treeNodes[j].id = treeNodes[k].parentId => j > k

\* the tree as it stood after the first m nodes of treeNodes
TreePrefix(m) == TreeAfter(TreeContents, TreeParams, "ext", treeNodes, m)

\* C9: a rendered node whose parentId names a later node or no node is at
\* the root, after its own step and after every later step, and in no
\* submenu; a rendered node whose parentId names a node rendered earlier is
\* in that parent's submenu and not at the root.
C9_ForwardParentStaysAtRoot ==
  treePc = "done" =>
    \A k \in 1..Len(treeNodes) :
      /\ ParentLaterOrAbsent(k) =>
           \A m \in k..Len(treeNodes) :
             /\ InRoot(TreePrefix(m), treeState.made[k])
             /\ ~InSomeSubmenu(TreePrefix(m), treeState.made[k])
      /\ ParentRenderedEarlier(k) =>
           /\ \E j \in 1..(k - 1) :
                /\ treeNodes[j].id = treeNodes[k].parentId
                /\ treeState.made[j] # 0
                /\ InSubmenuOf(treeState, treeState.made[j], treeState.made[k])
           /\ ~InRoot(treeState, treeState.made[k])

\* a three node list whose first node names the third as its parent and
\* whose second node names the first
C9_Witness ==
  /\ treePc = "done"
  /\ Len(treeNodes) = 3
  /\ treeNodes[1].parentId = 3
  /\ treeNodes[2].parentId = 1
  /\ ParentLaterOrAbsent(1)
  /\ ParentRenderedEarlier(2)
  /\ treeState.made[3] # 0

\* C10: after the pass every item recorded in the index is reachable from
\* the returned root list, and every rendered item is held in exactly one
\* place, the root list or one submenu.
C10_IndexedReachableOnce ==
  treePc = "done" =>
    /\ Indexed(treeState) \subseteq Reachable(treeState)
    /\ \A ref \in 1..Len(treeState.objs) : Occurrences(treeState, ref) = 1

\* a chain of three rendered nodes: the third under the second under the first
C10_Witness ==
  /\ treePc = "done"
  /\ Len(treeState.objs) = 3
  /\ Cardinality(Indexed(treeState)) = 3
  /\ InSubmenuOf(treeState, 1, 2)
  /\ InSubmenuOf(treeState, 2, 3)
  /\ InRoot(treeState, 1)

(***************************************************************************)
(* Properties of the binding registry.                                     *)
(***************************************************************************)
InvocationsOf(request) ==
  {i \in 1..Len(invocations) : invocations[i].request = request}

MenusOf(i) == {m \in 1..Len(menus) : menus[m].invocation = i}

\* C1: no surface ever has more than one context-menu trigger attached,
\* whatever creation events were delivered for it, so that one
\* contextRequested runs launchMenu at most once and shows at most one menu.
C1_AtMostOneTrigger ==
  /\ \A s \in Surfaces : listeners[s].contextMenu <= 1
  /\ \A request \in 1..requests :
       /\ Cardinality(InvocationsOf(request)) <= 1
       /\ Cardinality(UNION {MenusOf(i) : i \in InvocationsOf(request)}) <= 1

\* both creation events of the root surface were validated and a menu was
\* requested on it: one trigger, one invocation, one menu
C1_Witness ==
  /\ winPolicy # "noRootMenu"
  /\ sphase[RootSurface] = "attached"
  /\ immediates = <<>>
  /\ listeners[RootSurface].contextMenu = 1
  /\ requests = 1
  /\ Len(invocations) = 1
  /\ invocations[1].contents = RootSurface
  /\ Cardinality(MenusOf(1)) = 1

(***************************************************************************)
(* Properties of the menu pipeline.                                        *)
(***************************************************************************)
OpenMenus == {m \in 1..Len(menus) : menus[m].open}

\* C3: at most one menu is open (popped up and not yet closed) on the
\* window at any time.
C3_AtMostOneOpenMenu == Cardinality(OpenMenus) <= 1

Settled(i) == invocations[i].lookup \in {"resolved", "rejected"}

\* the menu of invocation i is shown with this template
ShownWith(i, template) ==
  \E m \in MenusOf(i) : menus[m].template = template

IsAutofillSectionFor(section, credentials) ==
  /\ IsArr(section)
  /\ Len(section.items) = Len(credentials) + 2
  /\ \A k \in 1..Len(credentials) :
       section.items[k].label = <<credentials[k].account>>
  /\ section.items[Len(credentials) + 1].label = <<"Manage saved passwords">>
  /\ section.items[Len(credentials) + 2].label = <<"Add new password">>

\* the call hands over the autofill section followed by the nine
\* synchronous sections of the invocation
IsEnrichedCall(call, invocation) ==
  /\ Len(call.sections) = 10
  /\ IsAutofillSectionFor(call.sections[1], invocation.settle.credentials)
  /\ Tail(call.sections) = invocation.sections

\* C5 as stated: whenever the lookup resolves with credentials, the section
\* list presented is the autofill section followed by the nine synchronous
\* sections.
C5_ResolvedPresentsEnriched ==
  \A i \in 1..Len(invocations) :
    invocations[i].lookup = "resolved" =>
      /\ Len(invocations[i].presentCalls) > 0
      /\ IsEnrichedCall(invocations[i].presentCalls[1], invocations[i])

\* C5 as amended: when the lookup resolves with credentials while the
\* surface is still alive and its URL still starts with https://, the
\* success continuation hands presentMenu the autofill section (one action
\* per credential in lookup order, then the two management actions)
\* followed by the nine synchronous sections, and on an open window that
\* menu is shown.
C5_ResolvedAliveSecurePresentsEnriched ==
  \A i \in 1..Len(invocations) :
    (/\ invocations[i].lookup = "resolved"
     /\ invocations[i].settle.alive
     /\ StartsWith(invocations[i].settle.url, <<"https://">>)) =>
      /\ Len(invocations[i].presentCalls) > 0
      /\ IsEnrichedCall(invocations[i].presentCalls[1], invocations[i])
      /\ invocations[i].settle.windowOpen =>
           /\ Len(invocations[i].presentCalls) = 1
           /\ ShownWith(i, invocations[i].presentCalls[1].template)

C5_Witness ==
  \E i \in 1..Len(invocations) :
    /\ invocations[i].lookup = "resolved"
    /\ invocations[i].settle.alive
    /\ invocations[i].settle.windowOpen
    /\ Len(invocations[i].settle.credentials) = 2
    /\ \E m \in MenusOf(i) :
         /\ menus[m].open
         /\ Len(menus[m].template) > 4
         /\ menus[m].template[1].label = <<"alice">>
         /\ menus[m].template[2].label = <<"bob">>
         /\ IsSeparator(menus[m].template[5])

\* the three conditions of the enrichment, read off the launch
LookupConditions(invocation) ==
  /\ autofillAvailable
  /\ isValidAutofillUrl(invocation.launchUrl)
  /\ invocation.params.inputFieldType = "password"
  /\ invocation.params.isEditable
  /\ invocation.launchUrl[1] = "https://"

\* C6: an invocation starts a lookup exactly when the autofill capability
\* is available, the URL is a valid autofill URL and the field is an
\* editable password field on an https page; it then issues one lookup, for
\* the surface's URL, and presents nothing yet; otherwise it issues none and
\* presents the synchronous sections at once.  One event starts at most one
\* invocation.
C6_LookupIffEligible ==
  /\ \A i \in 1..Len(invocations) :
       /\ (invocations[i].lookup # "none") <=> LookupConditions(invocations[i])
       /\ LookupConditions(invocations[i]) =>
            /\ invocations[i].lookupCalls = <<invocations[i].launchUrl>>
            /\ invocations[i].lookup = "pending" =>
                 invocations[i].presentCalls = <<>>
       /\ ~LookupConditions(invocations[i]) =>
            /\ invocations[i].lookupCalls = <<>>
            /\ Len(invocations[i].presentCalls) = 1
            /\ invocations[i].presentCalls[1].sections = invocations[i].sections
  /\ \A request \in 1..requests : Cardinality(InvocationsOf(request)) <= 1

\* one invocation waits for its lookup, another, on an editable https
\* password field of a page the autofill rule does not cover, started none
C6_Witness ==
  /\ autofillAvailable
  /\ \E i, j \in 1..Len(invocations) :
       /\ invocations[i].lookup = "pending"
       /\ invocations[j].lookup = "none"
       /\ isAutofillPasswordField([url |-> invocations[j].launchUrl],
                                  invocations[j].params)
       /\ ~isValidAutofillUrl(invocations[j].launchUrl)

\* C7: a lookup that settles after its surface was destroyed presents no
\* menu.
C7_DestroyedSurfaceNoMenu ==
  \A i \in 1..Len(invocations) :
    (Settled(i) /\ ~invocations[i].settle.alive) =>
      invocations[i].presentCalls = <<>>

\* C8: every invocation calls presentMenu exactly once: at once when no
\* lookup was started, and otherwise not before the lookup settles and once
\* when it has; each call hands over the synchronous sections computed at
\* launch.
C8_PresentedExactlyOnce ==
  \A i \in 1..Len(invocations) :
    /\ invocations[i].lookup = "none" => Len(invocations[i].presentCalls) = 1
    /\ invocations[i].lookup = "pending" => Len(invocations[i].presentCalls) = 0
    /\ Settled(i) =>
         /\ ~invocations[i].presentedBeforeSettle
         /\ Len(invocations[i].presentCalls) = 1
    /\ \A c \in 1..Len(invocations[i].presentCalls) :
         LET sections == invocations[i].presentCalls[c].sections
         IN SubSeq(sections, Len(sections) - 8, Len(sections))
              = invocations[i].sections

(***************************************************************************)
(* Properties of renderExtensionSection.                                   *)
(***************************************************************************)
\* the ids of the extension nodes rendered anywhere in these items
RECURSIVE RenderedIds(_)
RenderedIds(items) ==
  UNION { (IF HasKey(items[i], "_id_") THEN {items[i]._id_} ELSE {})
            \cup (IF HasKey(items[i], "submenu")
                    THEN RenderedIds(items[i].submenu) ELSE {}) :
          i \in 1..Len(items) }

\* the visibility rule as the specification words it
VisibleAsSpecified(contexts, params) ==
  \/ CONTEXT_TYPE_ALL \in contexts
  \/ CONTEXT_TYPE_PAGE \in contexts
  \/ (params.isEditable /\ CONTEXT_TYPE_EDITABLE \in contexts)

\* C11: a node of the first extension that renders to an item of its own
\* is in the rendered section exactly when its contexts contain 'all', or
\* contain 'page', or the request is editable and they contain 'editable'.
C11_IncludedIffVisible ==
  (extPc = "done" /\ Len(extRuntimeData) = 1) =>
    \A k \in 1..Len(extRuntimeData[1].contextMenus) :
      LET menuId == extRuntimeData[1].contextMenus[k].menuId
          menuData == extRuntimeData[1].contextMenus[k].menuData
      IN menuData.type = ITEM_TYPE_NORMAL =>
           (menuId \in RenderedIds(extSection.items)
              <=> VisibleAsSpecified(menuData.contexts, extParams))

RECURSIVE NoEmptySubmenu(_)
NoEmptySubmenu(items) ==
  \A i \in 1..Len(items) :
    HasKey(items[i], "submenu") =>
      /\ Len(items[i].submenu) > 0
      /\ NoEmptySubmenu(items[i].submenu)

\* C12: no item of the rendered extension section carries a submenu with
\* zero children.
C12_NoEmptySubmenu ==
  extPc = "done" => NoEmptySubmenu(extSection.items)

\* what the specification has one extension contribute, given the top-level
\* items the tree builder returned for its visible nodes
ContributionAsSpecified(extension, rendered) ==
  IF Len(rendered) = 1 THEN
    << rendered[1] @@ [icon |-> NativeImageFromPath(extension.icons)] >>
  ELSE IF Len(rendered) > 1 THEN
    << [label |-> extension.name,
        icon |-> NativeImageFromPath(extension.icons),
        submenu |-> rendered] >>
  ELSE <<>>

\* C13: each extension contributes, in order, its single top-level item
\* unwrapped, or one submenu labelled with its name holding its top-level
\* items in order when there are several, or nothing when there is none.
C13_HoistOneWrapManyDropNone ==
  extPc = "done" =>
    extSection.items =
      Concat([e \in 1..Len(extRuntimeData) |->
                ContributionAsSpecified(
                  extRuntimeData[e],
                  renderExtensionMenuTree(
                    TreeContents, extParams, extRuntimeData[e].extensionId,
                    ValidContextMenus(extRuntimeData[e], extParams)))])

(***************************************************************************)
(* Properties of the composition of a menu.                                *)
(***************************************************************************)
\* the items of a section that are no separators
ItemsOf(section) ==
  IF Truthy(section)
    THEN {section.items[k] : k \in 1..Len(section.items)}
           \ {SeparatorItem}
    ELSE {}

\* the nine synchronous sections are, in this order: spelling, link/URL,
\* lookup/search, undo/redo, editing, in-page navigation, external-open,
\* extension, application-level
InFixedOrder(sections, contents, params) ==
  LET accountInfo == getMenuAccountInfo(contents.id, MainEnv)
  IN /\ Len(sections) = 9
     /\ sections[1] = renderSpellingSection(contents, params, MainEnv)
     /\ sections[2] = renderURLSection(contents, params, accountInfo,
                                       contents.isDefaultSession, MainEnv)
     /\ sections[3] = renderLookupAndSearchSection(contents, params)
     /\ sections[4] = renderRewindSection(contents, params)
     /\ sections[5] = renderEditingSection(contents, params)
     /\ sections[6] = renderPageNavigationSection(contents, params, accountInfo)
     /\ sections[7] = renderPageExternalSection(contents, params, accountInfo,
                                                contents.isDefaultSession)
     /\ sections[8] = renderExtensionSection(contents, params,
                                             MainEnv.runtimeContextMenuData)
     /\ sections[9] = renderWaveboxSection(contents, params, MainEnv)

\* every item of every section is in the template, and no item of a later
\* section stands before an item of an earlier one
SectionOrderKept(sections, template) ==
  /\ \A a \in 1..Len(sections) :
       \A item \in ItemsOf(sections[a]) :
         \E p \in 1..Len(template) : template[p] = item
  /\ \A a, b \in 1..Len(sections) :
       a < b =>
         \A p, q \in 1..Len(template) :
           (template[p] \in ItemsOf(sections[a])
              /\ template[q] \in ItemsOf(sections[b])) => p < q

\* C14: the template of a composed menu holds the items of the non-empty
\* sections in the fixed order spelling, link/URL, lookup/search,
\* undo/redo, editing, in-page navigation, external-open, extension,
\* application-level, with the autofill section, when there is one, before
\* all of them.
C14_SectionsInFixedOrder ==
  cmpPc = "done" =>
    LET n == Len(cmpSections)
    IN /\ n \in {9, 10}
       /\ InFixedOrder(SubSeq(cmpSections, n - 8, n), cmpInput.contents,
                       cmpInput.params)
       /\ n = 10 =>
            cmpSections[1] = renderAutofillSection(cmpInput.contents,
                                                   cmpInput.params,
                                                   cmpInput.lookup.credentials)
       /\ SectionOrderKept(cmpSections, cmpTemplate)

\* a menu with an autofill section and at least five further sections that
\* are not empty, the spelling and the application-level ones among them
C14_Witness ==
  /\ cmpPc = "done"
  /\ Len(cmpSections) = 10
  /\ ItemsOf(cmpSections[1]) # {}
  /\ ItemsOf(cmpSections[2]) # {}
  /\ ItemsOf(cmpSections[10]) # {}
  /\ Cardinality({a \in 1..10 : ItemsOf(cmpSections[a]) # {}}) >= 6

(***************************************************************************)
(* Properties of the deferred validation.                                  *)
(***************************************************************************)
Scheduled == Len(immediates') > Len(immediates)

Ticked == Len(immediates') < Len(immediates)

RegistryUnchanged == UNCHANGED <<privConnected, listeners>>

\* C15: a creation event only schedules the validation and leaves the
\* registry alone; the bound set and the listeners change by binding only
\* in a deferred callback; and the callback of a surface that was destroyed
\* in the meantime leaves the bound set and the listeners unchanged.
C15_ValidationDeferred ==
  [][ /\ Scheduled => RegistryUnchanged
      /\ (\E s \in Surfaces :
            \/ s \in privConnected' \ privConnected
            \/ listeners'[s] # listeners[s]) => Ticked
      /\ (Ticked /\ sphase[Head(immediates)] = "destroyed")
           => RegistryUnchanged ]_vars

\* a surface whose first deferred check found it destroyed, and which is
\* neither bound nor listened to
C15_Witness ==
  \E s \in Surfaces :
    /\ Len(validations[s]) > 0
    /\ validations[s][1] = "destroyed"
    /\ sphase[s] = "destroyed"
    /\ s \notin privConnected
    /\ listeners[s] = [contextMenu |-> 0, destroyed |-> 0]

\* the deferred callback at the head of the queue is for a surface other
\* than the root that is alive, not bound yet, attached to the root of an
\* open window
GuestPassesChecks ==
  /\ Ticked
  /\ Head(immediates) # RootSurface
  /\ sphase[Head(immediates)] = "attached"
  /\ Head(immediates) \notin privConnected
  /\ sphase[RootSurface] = "attached"
  /\ winState = "open"

\* C16: on a window whose policy says its root surface carries no context
\* menu the root surface is never bound and never listened to, and any
\* other surface of the window that passes the remaining checks is bound.
C16_OptedOutRootNeverBound ==
  /\ [](winPolicy = "noRootMenu" =>
          /\ RootSurface \notin privConnected
          /\ listeners[RootSurface] = [contextMenu |-> 0, destroyed |-> 0])
  /\ [][ (winPolicy = "noRootMenu" /\ GuestPassesChecks) =>
           /\ Head(immediates) \in privConnected'
           /\ listeners'[Head(immediates)]
                = [contextMenu |-> 1, destroyed |-> 1] ]_vars

\* both creation events of the root surface were validated, the second on
\* the open window, and the guest of the same window is bound
C16_Witness ==
  /\ winPolicy = "noRootMenu"
  /\ Len(validations[RootSurface]) = 2
  /\ validations[RootSurface][2] = "optedOut"
  /\ RootSurface \notin privConnected
  /\ GuestSurface \in privConnected
  /\ listeners[GuestSurface].contextMenu = 1

\* C17: the bound set holds only surfaces that are alive; in particular a
\* deferred validation that runs after the destruction of its surface does
\* not add the id again.
C17_BoundSurfacesAlive ==
  \A s \in privConnected : sphase[s] \in {"created", "attached"}

\* the root surface was bound by its first callback, destroyed, and then
\* its second callback ran
C17_Witness ==
  /\ validations[RootSurface] = <<"bound", "destroyed">>
  /\ sphase[RootSurface] = "destroyed"
  /\ RootSurface \notin privConnected

(***************************************************************************)
(* Properties of the aborted validation.                                   *)
(***************************************************************************)
\* surface s has no root surface to resolve: it is not a root itself and is
\* not attached to a host, or its host is gone
HasNoRoot(s) ==
  /\ s # RootSurface
  /\ sphase[s] # "attached" \/ sphase[RootSurface] = "destroyed"

\* the root surface belongs to no window
HasNoWindow == winState # "open" \/ sphase[RootSurface] # "attached"

\* the deferred callback at the head of the queue is for a live surface that
\* is not bound and has no root surface or no owning window
AbortsUnresolved ==
  /\ Ticked
  /\ IsAlive(Head(immediates))
  /\ Head(immediates) \notin privConnected
  /\ HasNoRoot(Head(immediates)) \/ HasNoWindow

\* C24: a deferred validation that finds no root surface or no owning
\* window leaves the bound set and the listeners unchanged, the surface is
\* neither bound nor listened to afterwards, and a context-menu event on a
\* surface without a listener starts no invocation and presents no menu.
C24_AbortedValidationBindsNothing ==
  /\ [][ AbortsUnresolved =>
           /\ RegistryUnchanged
           /\ Head(immediates) \notin privConnected'
           /\ listeners'[Head(immediates)]
                = [contextMenu |-> 0, destroyed |-> 0] ]_vars
  /\ [][ \A s \in Surfaces : \A params \in MenuParams :
           (listeners[s].contextMenu = 0 /\ ContextRequested(s, params))
             => UNCHANGED <<invocations, menus>> ]_vars
  /\ [](\A s \in Surfaces :
          (IsAlive(s) /\ s \notin privConnected)
            => listeners[s] = [contextMenu |-> 0, destroyed |-> 0])

\* the root surface was validated before its window existed, and the one
\* context-menu event so far, which was on it, presented nothing
C24_Witness ==
  /\ validations[RootSurface] = <<"noWindow">>
  /\ sphase[GuestSurface] = "none"
  /\ IsAlive(RootSurface)
  /\ RootSurface \notin privConnected
  /\ listeners[RootSurface].contextMenu = 0
  /\ requests = 1
  /\ invocations = <<>>
  /\ menus = <<>>

(***************************************************************************)
(* Properties of the second validation of a root surface.                  *)
(***************************************************************************)
\* how many deferred callbacks of surface s ended by binding it
RECURSIVE BoundCount(_)
BoundCount(ends) ==
  IF ends = <<>> THEN 0
  ELSE (IF Head(ends) = "bound" THEN 1 ELSE 0) + BoundCount(Tail(ends))

\* the callback at the head of the queue is for the root surface, whose
\* earlier validation found no window, and which now is alive in its open
\* window and allowed a menu by the window's policy
RootRevalidated ==
  /\ Ticked
  /\ Head(immediates) = RootSurface
  /\ validations[RootSurface] = <<"noWindow">>
  /\ sphase[RootSurface] = "attached"
  /\ winState = "open"
  /\ winPolicy # "noRootMenu"

\* no callback for the root surface is waiting
RootSettled == \A k \in 1..Len(immediates) : immediates[k] # RootSurface

\* C28: a root surface whose first validation found no window is bound by
\* the validation that the window-created event scheduled, once that runs
\* on the live surface in its open window; after all its validations ran
\* such a surface is bound; and no surface is bound more than once.
C28_LateAttachmentBoundOnce ==
  /\ [][ RootRevalidated =>
           /\ RootSurface \in privConnected'
           /\ listeners'[RootSurface]
                = [contextMenu |-> 1, destroyed |-> 1] ]_vars
  /\ []((/\ RootSettled
         /\ sphase[RootSurface] = "attached"
         /\ winState = "open"
         /\ winPolicy # "noRootMenu") => RootSurface \in privConnected)
  /\ [](\A s \in Surfaces :
          /\ BoundCount(validations[s]) <= 1
          /\ listeners[s].contextMenu = BoundCount(validations[s]))

\* the first validation of the root surface found no window, the second
\* bound it
C28_Witness ==
  /\ validations[RootSurface] = <<"noWindow", "bound">>
  /\ RootSurface \in privConnected
  /\ listeners[RootSurface] = [contextMenu |-> 1, destroyed |-> 1]

(***************************************************************************)
(* Properties of the nodes whose parent rendered to nothing.               *)
(***************************************************************************)
\* the k-th node was rendered, and its parentId is the id of an earlier
\* node of the list that rendered to nothing, or of a node that is not in
\* the list at all
ParentSkipped(k) ==
  /\ treeState.made[k] # 0
  /\ treeNodes[k].parentId # NoParent
  /\ \A j \in 1..Len(treeNodes) :
       treeNodes[j].id = treeNodes[k].parentId
         => (j < k /\ treeState.made[j] = 0)

\* C29: after the pass the index holds exactly the ids of the nodes that
\* rendered to an item; a rendered node whose parent rendered to nothing,
\* or is not in the list, is at the root level and in no submenu; and every
\* rendered node is reachable from the returned root list.
C29_SkippedParentChildAtRoot ==
  treePc = "done" =>
    /\ DOMAIN treeState.index
         = {treeNodes[k].id : k \in {j \in 1..Len(treeNodes) :
                                       treeState.made[j] # 0}}
    /\ \A k \in 1..Len(treeNodes) :
         /\ ParentSkipped(k) =>
              /\ InRoot(treeState, treeState.made[k])
              /\ ~InSomeSubmenu(treeState, treeState.made[k])
         /\ treeState.made[k] # 0 => treeState.made[k] \in Reachable(treeState)

\* the first node is of an unknown kind; the second names it as its parent
\* and the third names the second
C29_Witness ==
  /\ treePc = "done"
  /\ Len(treeNodes) = 3
  /\ treeState.made[1] = 0
  /\ treeNodes[2].parentId = treeNodes[1].id
  /\ treeNodes[3].parentId = treeNodes[2].id
  /\ ParentSkipped(2)
  /\ treeState.made[3] # 0
  /\ InRoot(treeState, treeState.made[2])
  /\ InSubmenuOf(treeState, treeState.made[2], treeState.made[3])

(***************************************************************************)
(* Properties of the items convertSectionsToTemplate copies.               *)
(***************************************************************************)
\* the sections of the list that are arrays with at least one item
NonEmptySections(sections) ==
  SelectSeq(sections, LAMBDA section :
    section # Undefined /\ Len(section.items) > 0)

\* the items of the sections in order, one separator between two sections
RECURSIVE JoinedBySeparator(_)
JoinedBySeparator(sections) ==
  IF Len(sections) = 0 THEN <<>>
  ELSE IF Len(sections) = 1 THEN sections[1].items
  ELSE sections[1].items \o <<SeparatorItem>>
         \o JoinedBySeparator(Tail(sections))

\* C30: the call leaves its argument as it was, and its result is the items
\* of the non-empty sections, unchanged and in order, with exactly one
\* separator inserted between two adjacent non-empty sections; it is the
\* empty list when no section has an item.
C30_OnlySeparatorsInserted ==
  /\ [][tplPc' = "done" => tplSections' = tplSections]_vars
  /\ [](tplPc = "done" =>
          /\ tplTemplate = JoinedBySeparator(NonEmptySections(tplSections))
          /\ NonEmptySections(tplSections) = <<>> => tplTemplate = <<>>)

\* two non-empty sections with an undefined one between them: the template
\* has their items and one separator between them
C30_Witness ==
  /\ tplPc = "done"
  /\ Len(tplSections) = 3
  /\ tplSections[2] = Undefined
  /\ Len(NonEmptySections(tplSections)) = 2
  /\ Len(tplSections[1].items) = 2
  /\ tplTemplate = tplSections[1].items \o <<SeparatorItem>>
                     \o tplSections[3].items

(***************************************************************************)
(* Properties of the clicks on extension items.                            *)
(***************************************************************************)
\* C20: a click on an extension item whose surface has been destroyed sends
\* nothing to the extension runtime; a click whose surface is alive sends
\* exactly one contextMenuItemSelected carrying the extension id and the id
\* of the node.
C20_ClickOnDestroyedSurfaceNoOp ==
  \A c \in 1..Len(clicks) :
    LET item == menus[clicks[c].menu].template[clicks[c].item]
    IN /\ ~clicks[c].alive => clicks[c].calls = <<>>
       /\ clicks[c].alive =>
            /\ Len(clicks[c].calls) = 1
            /\ clicks[c].calls[1].fn = "contextMenuItemSelected"
            /\ clicks[c].calls[1].extensionId = "ext"
            /\ clicks[c].calls[1].clickParams.menuItemId = item._id_

C20_Witness ==
  \E c \in 1..Len(clicks) :
    /\ ~clicks[c].alive
    /\ clicks[c].calls = <<>>
    /\ sphase[GuestSurface] = "destroyed"
    /\ winState = "open"

(***************************************************************************)
(* Properties of the life of a menu.                                       *)
(***************************************************************************)
MenuStep ==
  \/ requests' # requests
  \/ invocations' # invocations
  \/ menus' # menus

\* a context-menu event is emitted on the guest while it is attached to the
\* root of the open window
RequestOnLiveGuest ==
  /\ \E params \in MenuParams : ContextRequested(GuestSurface, params)
  /\ sphase[GuestSurface] = "attached"
  /\ sphase[RootSurface] = "attached"
  /\ winState = "open"

\* C18: requesting, composing, presenting and closing a menu leave the
\* bound set and the attached listeners as they are, and a context-menu
\* event on the bound surface, also after an earlier menu closed, runs
\* launchMenu again, which presents a menu unless it starts a lookup.
C18_MenuStepsKeepBinding ==
  [][ /\ MenuStep => UNCHANGED <<privConnected, listeners>>
      /\ RequestOnLiveGuest =>
           /\ Len(invocations') = Len(invocations) + 1
           /\ invocations'[Len(invocations')].lookup = "none" =>
                Len(menus') = Len(menus) + 1 ]_vars

\* the menu of the first event closed before the second event, whose menu
\* is open; the surface is still bound
C18_Witness ==
  /\ Len(menus) = 2
  /\ ~menus[1].open
  /\ menus[1].closedAt = 1
  /\ invocations[menus[1].invocation].request = 1
  /\ invocations[menus[2].invocation].request = 2
  /\ invocations[menus[2].invocation].contents
       = invocations[menus[1].invocation].contents
  /\ menus[2].open
  /\ GuestSurface \in privConnected
  /\ listeners[GuestSurface].contextMenu = 1

\* C19: a menu that was popped up is destroyed by its close callback, once
\* and not before it closes, and every menu popped up is eventually closed
\* and destroyed.
C19_PresentedMenuDestroyedAtClose ==
  /\ [](\A m \in 1..Len(menus) :
          menus[m].destroyCalls = IF menus[m].open THEN 0 ELSE 1)
  /\ \A m \in 1..MaxRequests :
       (Len(menus) >= m)
         ~> (Len(menus) >= m /\ ~menus[m].open /\ menus[m].destroyCalls = 1)

\* the menu of a settled lookup was closed and destroyed
C19_Witness ==
  \E m \in 1..Len(menus) :
    /\ ~menus[m].open
    /\ menus[m].destroyCalls = 1
    /\ Settled(menus[m].invocation)

(***************************************************************************)
(* Properties of renderLookupAndSearchSection.                             *)
(***************************************************************************)
\* the display text the specification gives for a selection
DisplayAsSpecified(text) ==
  IF Len(text) >= 50 THEN [i \in 1..48 |-> IF i = 48 THEN "..." ELSE text[i]]
  ELSE text

\* target is prefix followed by the whole of text, every unit of it encoded
OpensFullText(target, prefix, text) ==
  /\ Len(target) = Len(text) + 1
  /\ target[1] = prefix
  /\ \A i \in 1..Len(text) :
       target[i + 1] = (IF text[i] = " " THEN "%20" ELSE text[i])

\* C21: for a selection of 50 or more units the search and the translate
\* labels show its first 47 units and an ellipsis, for one of 49 or fewer
\* they show the selection itself, and both actions open a URL made from
\* the whole selection.
C21_DisplayTruncatedFromFifty ==
  (fnPc = "done" /\ Len(fnArgs.params.selectionText) > 0) =>
    LET text == fnArgs.params.selectionText
        n == Len(fnResult.items)
        search == fnResult.items[n - 1]
        translate == fnResult.items[n]
    IN /\ n >= 2
       /\ search.label
            = <<"Search Google for '">> \o DisplayAsSpecified(text) \o <<"'">>
       /\ translate.label
            = <<"Translate '">> \o DisplayAsSpecified(text) \o <<"'">>
       /\ search.click.fn = "openExternal"
       /\ OpensFullText(search.click.args.url,
                        "https://google.com/search?q=", text)
       /\ translate.click.fn = "openExternal"
       /\ OpensFullText(translate.click.args.url,
                        "http://translate.google.com/#auto/#/", text)

\* a selection of exactly 50 units, ending in a space, was rendered
C21_Witness ==
  /\ fnPc = "done"
  /\ Len(fnArgs.params.selectionText) = 50
  /\ fnArgs.params.selectionText[50] = " "
  /\ Len(fnResult.items[1].label) = 50
  /\ fnResult.items[1].click.args.url[51] = "%20"

(***************************************************************************)
(* Properties of the 'Copy Link Address' click.                            *)
(***************************************************************************)
\* C22: the click writes the link without its leading 'mailto:' when the
\* link starts with 'mailto:' and holds no '?', and writes the link as it
\* is in every other case.
C22_CopyStripsPlainMailto ==
  fnPc = "done" =>
    LET link == fnArgs.params.linkURL
    IN /\ fnResult.label = <<"Copy Link Address">>
       /\ fnResult.clipboard =
            IF link[1] = "mailto:" /\ (\A i \in 1..Len(link) : link[i] # "?")
              THEN SubSeq(link, 2, Len(link))
              ELSE link

C22_Witness ==
  /\ fnPc = "done"
  /\ fnArgs.params.linkURL = <<"mailto:", "user@x.com">>
  /\ fnResult.clipboard = <<"user@x.com">>

\* C23: renderExtensionSection leaves the data it obtained from the
\* extension runtime as it was.
C23_RuntimeDataUnchanged ==
  extPc = "done" => extRuntimeObject = extRuntimeData
(***************************************************************************)
(* Properties of the click context of an extension node.                   *)
(***************************************************************************)
\* C26: the click context dispatched for a checkbox or radio node carries
\* wasChecked equal to the node's checked value and checked equal to its
\* negation; the click context for a normal node carries neither field.
C26_CheckedStateInClickContext ==
  fnPc = "done" =>
    /\ Len(fnResult) = 1
    /\ LET call == fnResult[1]
           menuItem == fnArgs.menuItem
       IN /\ call.clickParams.menuItemId = menuItem.id
          /\ menuItem.type \in {ITEM_TYPE_CHECKBOX, ITEM_TYPE_RADIO} =>
               /\ DOMAIN call.checkedParams = {"wasChecked", "checked"}
               /\ call.checkedParams.wasChecked = menuItem.checked
               /\ call.checkedParams.checked = ~menuItem.checked
          /\ menuItem.type = ITEM_TYPE_NORMAL =>
               /\ ~HasKey(call.checkedParams, "wasChecked")
               /\ ~HasKey(call.checkedParams, "checked")
               /\ ~HasKey(call.clickParams, "wasChecked")
               /\ ~HasKey(call.clickParams, "checked")

\* a click on a checked radio node was dispatched
C26_Witness ==
  /\ fnPc = "done"
  /\ fnArgs.menuItem.type = ITEM_TYPE_RADIO
  /\ fnArgs.menuItem.checked
  /\ Len(fnResult) = 1
  /\ fnResult[1].checkedParams = [wasChecked |-> TRUE, checked |-> FALSE]
(***************************************************************************)
(* Properties of the spelling section.                                     *)
(***************************************************************************)
\* the items that stand for one suggestion list: one leaf per suggestion in
\* order, or the single disabled placeholder when the list is empty
StandsFor(items, suggestions) ==
  IF suggestions = <<>>
    THEN /\ Len(items) = 1
         /\ items[1].label = <<"No Spelling Suggestions">>
         /\ HasKey(items[1], "enabled")
         /\ items[1].enabled = FALSE
         /\ ~HasKey(items[1], "click")
  ELSE /\ Len(items) = Len(suggestions)
       /\ \A i \in 1..Len(items) :
            /\ items[i].label = <<suggestions[i]>>
            /\ HasKey(items[i], "click")
            /\ items[i].click.fn = "replaceMisspelling"
            /\ items[i].click.args.suggestion = suggestions[i]
            /\ ~HasKey(items[i], "submenu")

\* the one list the section shows when the service returned fewer than two
OneList(result) ==
  IF HasKey(result, "primary") THEN result.primary.suggestions
  ELSE IF HasKey(result, "secondary") THEN result.secondary.suggestions
  ELSE <<>>

\* C27: the spelling section has an item exactly when the field is
\* editable and a misspelled word is flagged; then, with a primary and a
\* secondary list it is exactly two submenus, one per list, and otherwise
\* the items of the one list; an empty list is rendered as exactly one
\* disabled 'No Spelling Suggestions' item, so no submenu is empty.
C27_SpellingSectionShape ==
  fnPc = "done" =>
    LET items == fnResult.items
        result == fnArgs.spellSuggestions
        flagged == fnArgs.params.isEditable /\ fnArgs.params.misspelledWord # <<>>
    IN /\ Len(items) > 0 <=> flagged
       /\ (flagged /\ HasKey(result, "primary") /\ HasKey(result, "secondary")) =>
            /\ Len(items) = 2
            /\ \A i \in 1..2 : HasKey(items[i], "submenu")
            /\ StandsFor(items[1].submenu, result.primary.suggestions)
            /\ StandsFor(items[2].submenu, result.secondary.suggestions)
       /\ (flagged /\ ~(HasKey(result, "primary") /\ HasKey(result, "secondary"))) =>
            StandsFor(items, OneList(result))
       /\ \A i \in 1..Len(items) :
            HasKey(items[i], "submenu") => Len(items[i].submenu) > 0

\* two lists, the primary one empty: two submenus, the first holding the
\* placeholder only
C27_Witness ==
  /\ fnPc = "done"
  /\ fnArgs.params.isEditable
  /\ fnArgs.params.misspelledWord # <<>>
  /\ HasKey(fnArgs.spellSuggestions, "primary")
  /\ HasKey(fnArgs.spellSuggestions, "secondary")
  /\ fnArgs.spellSuggestions.primary.suggestions = <<>>
  /\ Len(fnArgs.spellSuggestions.secondary.suggestions) = 2
  /\ Len(fnResult.items) = 2
  /\ Len(fnResult.items[1].submenu) = 1
  /\ Len(fnResult.items[2].submenu) = 2
(***************************************************************************)
(* Properties of the click on a service entry.                             *)
(***************************************************************************)
\* the mailboxes window holds a tab of the clicked service whose surface is
\* alive
LiveSurfaceNow ==
  lnkWindow /\ lnkTabs[lnkClick.args.serviceId] = "live"

CallNames(calls) == [i \in 1..Len(calls) |-> calls[i].fn]

\* C25: the click on a service that was asleep at render time awakens and
\* activates it and loads nothing; the load is made by the timer only, after
\* the activation, into the live surface found then, and not at all if none
\* is found; the click on an awake service loads the link and then
\* activates the service when a live surface is found, and calls nothing
\* otherwise.
C25_AsleepWakesThenLoads ==
  /\ [][ (lnkPc = "ready" /\ lnkPc' # "ready") =>
           IF lnkClick.args.sleepingAtRender
             THEN /\ lnkPc' = "timer"
                  /\ CallNames(lnkCalls')
                       = <<"awakenService", "changeActiveService">>
                  /\ \A i \in 1..2 :
                       lnkCalls'[i].arg = lnkClick.args.serviceId
             ELSE /\ lnkPc' = "done"
                  /\ IF LiveSurfaceNow
                       THEN lnkCalls'
                              = << LinkCall("loadURL", lnkClick.args.linkURL),
                                   LinkCall("changeActiveService",
                                            lnkClick.args.serviceId) >>
                       ELSE lnkCalls' = <<>> ]_vars
  /\ [][ (lnkPc = "timer" /\ lnkPc' # "timer") =>
           /\ lnkPc' = "done"
           /\ IF LiveSurfaceNow
                THEN lnkCalls'
                       = Append(lnkCalls,
                                LinkCall("loadURL", lnkClick.args.linkURL))
                ELSE lnkCalls' = lnkCalls ]_vars
  /\ []((lnkPc # "idle" /\ lnkClick.args.sleepingAtRender) =>
          \A i \in 1..Len(lnkCalls) :
            lnkCalls[i].fn = "loadURL" =>
              /\ lnkPc = "done"
              /\ \E j \in 1..(i - 1) : lnkCalls[j].fn = "changeActiveService")

\* the service was asleep and had no tab when its entry was clicked; its
\* tab was opened before the timer fired, and the link was loaded
C25_Witness ==
  /\ lnkPc = "done"
  /\ lnkClick.args.sleepingAtRender
  /\ CallNames(lnkCalls)
       = <<"awakenService", "changeActiveService", "loadURL">>
  /\ lnkCalls[3].arg = lnkClick.args.linkURL

====
